---- MODULE Spec2Model ----
(***************************************************************************)
(* Velora data-layer instrumentation: the event builders of adl-utils.js   *)
(* (window.adl), the helper builders of adl-xdm-helper.js, the cart        *)
(* operations of client.js, the validators of adl-validation.js and the    *)
(* XDM normalizer, modelled as a state machine over the window-scoped      *)
(* data layer, sessionStorage and the pending navigation timers.           *)
(***************************************************************************)
EXTENDS Integers, Sequences, FiniteSets, TLC

VARIABLES
  page,       \* window.location of the current document: [file, id]
  env,        \* ambient browser state: window.user, innerWidth, title, lang, adl
  log,        \* window.adobeDataLayer
  storage,    \* sessionStorage: key -> stored item
  storageOK,  \* FALSE while sessionStorage access throws (disabled, quota)
  timers,     \* pending setTimeout callbacks of this document
  lastOp      \* the operation that produced this state, with its outcome

vars == <<page, env, log, storage, storageOK, timers, lastOp>>

-----------------------------------------------------------------------------
(* Bounds of the model *)

\* longest data layer explored within one document
MaxLog == 2

-----------------------------------------------------------------------------
(* JavaScript values of product descriptors: strings, numbers, undefined *)

S(x) == [t |-> "s", s |-> x, n |-> 0]
N(k) == [t |-> "n", s |-> "", n |-> k]
U == [t |-> "u", s |-> "", n |-> 0]
NaN == [t |-> "nan", s |-> "", n |-> 0]

\* JavaScript truthiness: '', 0, NaN and undefined are falsy
Truthy(v) ==
  \/ v.t = "s" /\ v.s # ""
  \/ v.t = "n" /\ v.n # 0

\* a || b
Or(a, b) == IF Truthy(a) THEN a ELSE b

\* obj.field, undefined when the property is missing
Get(obj, f) == IF f \in DOMAIN obj THEN obj[f] ELSE U

\* var x = v; ...: the rest of the function, with x standing for the value v
\* computed once
With(v, Rest(_)) == CHOOSE r \in {Rest(x) : x \in {v}} : TRUE

-----------------------------------------------------------------------------
(* Pages: window.location *)

Files == {"index.html", "plp.html", "pdp.html", "cart.html",
          "checkout.html", "payment.html", "thankyou.html"}

Pages == {[file |-> f, id |-> ""] : f \in Files}
           \cup {[file |-> "pdp.html", id |-> "1"]}

\* window.location.pathname.includes(frag) for the site's file names
PathIncludes(p, frag) ==
  \/ p.file = frag
  \/ frag = "pdp" /\ p.file = "pdp.html"
  \/ frag = "thankyou" /\ p.file = "thankyou.html"

\* window.location.href
Href(p) == IF p.id = "" THEN "/" \o p.file ELSE "/" \o p.file \o "?id=" \o p.id

\* the document a relative URL leads to
PageOfURL(url) == CHOOSE p \in Pages : Href(p) = "/" \o url

-----------------------------------------------------------------------------
(* Ambient browser state *)

NoUser == [isLoggedIn |-> FALSE, id |-> ""]

\* adl tells whether adl-utils.js is loaded in the site's documents
EnvSet ==
  { [user |-> NoUser, innerWidth |-> 1024, title |-> "", lang |-> "en", adl |-> TRUE],
    [user |-> [isLoggedIn |-> TRUE, id |-> "u1"], innerWidth |-> 375,
     title |-> "Velora", lang |-> "hi", adl |-> TRUE],
    [user |-> NoUser, innerWidth |-> 1024, title |-> "Velora", lang |-> "en",
     adl |-> FALSE] }

MobileWidth == 768

\* buildCustData with the lang property left out
buildCustDataNoLang(e) ==
  [ customerID |-> e.user.id,
    loginStatus |-> IF e.user.isLoggedIn THEN "logged-in" ELSE "guest",
    platform |-> IF e.innerWidth <= MobileWidth THEN "mobile website"
                 ELSE "desktop website" ]

buildCustData(e) ==
  [ customerID |-> e.user.id,
    lang |-> "english",
    loginStatus |-> IF e.user.isLoggedIn THEN "logged-in" ELSE "guest",
    platform |-> IF e.innerWidth <= MobileWidth THEN "mobile website"
                 ELSE "desktop website" ]

buildCustDataLocal(e) ==
  [ loginStatus |-> IF e.user.isLoggedIn THEN "logged-in" ELSE "guest",
    platform |-> IF e.innerWidth <= MobileWidth THEN "mobile website"
                 ELSE "desktop website",
    customerID |-> e.user.id,
    lang |-> IF e.lang = "hi" THEN "hindi" ELSE "english" ]

\* window.adl.getPageType
adlGetPageType(p) ==
  IF PathIncludes(p, "pdp.html") \/ p.id # "" THEN "pdp"
  ELSE IF PathIncludes(p, "plp.html") THEN "category"
  ELSE IF PathIncludes(p, "cart.html") THEN "cart"
  ELSE IF PathIncludes(p, "checkout.html") THEN "checkout"
  ELSE IF PathIncludes(p, "payment.html") THEN "checkout"
  ELSE IF PathIncludes(p, "thankyou.html") THEN "confirmation"
  ELSE "home"

\* window.adl.getPageName
adlGetPageName(p) ==
  LET pageType == adlGetPageType(p) IN
  CASE pageType = "home" -> "home"
    [] pageType = "category" -> "plp"
    [] pageType = "pdp" -> "product"
    [] pageType = "cart" -> "cart"
    [] pageType = "checkout" -> "checkout"
    [] pageType = "confirmation" -> "confirmation"
    [] OTHER -> "home"

\* getPageType of adl-xdm-helper.js
getPageType(p) ==
  IF PathIncludes(p, "pdp.html") \/ p.id # "" THEN "pdp"
  ELSE IF PathIncludes(p, "plp.html") THEN "plp"
  ELSE IF PathIncludes(p, "cart.html") THEN "cart"
  ELSE IF PathIncludes(p, "checkout.html") THEN "checkout"
  ELSE IF PathIncludes(p, "thankyou.html") THEN "thankyou"
  ELSE "home"

-----------------------------------------------------------------------------
(* sessionStorage *)

KeyLink == "aurora_lastLinkClicked"
KeyPage == "aurora_pageData"
KeyNormPage == "velora_pageData"
KeyProducts == "velora_productListItems"
KeyCart == "velora_cart"
KeyOrder == "velora_order"

Keys == {KeyLink, KeyPage, KeyNormPage, KeyProducts, KeyCart, KeyOrder}

\* getItem gives null for a key never set
Absent == [kind |-> "absent"]
\* an item that JSON.parse rejects
Garbage == [kind |-> "garbage"]
\* the item JSON.stringify(v) writes, which JSON.parse reads back as v
JSONItem(v) == [kind |-> "json", v |-> v]

-----------------------------------------------------------------------------
(* Product catalog of client.js and the product objects callers pass *)

products ==
  << [id |-> S("1"), sku |-> S("1"), name |-> S("Classic Denim Jacket"),
      category |-> S("Jackets"), brand |-> S("Velora"), price |-> N(2499),
      image |-> S("img1")],
     [id |-> S("2"), sku |-> S("2"), name |-> S("Casual White Shirt"),
      category |-> S("Shirts"), brand |-> S("Velora"), price |-> N(1299),
      image |-> S("img2")] >>

\* String.prototype.toLowerCase on the identifiers the site uses
toLowerCase(s) == IF s = "VEL-1" THEN "vel-1" ELSE IF s = "VEL-2" THEN "vel-2" ELSE s

\* the product object a page passes to the window.adl builders for a catalog entry
AdlProduct(c, qty) ==
  [ productID |-> c.id, productName |-> c.name, category |-> c.category,
    price |-> c.price, quantity |-> qty ]

-----------------------------------------------------------------------------
(* window.adl builders (adl-utils.js): each gives the event object pushed *)

NoProduct == [none |-> TRUE]

\* firePageLoaded's event object; opts.pageType/pageName '' and
\* opts.productDetails NoProduct stand for an option not given
PageLoadedEvent(p, e, opts) ==
  LET pageType == IF opts.pageType # "" THEN opts.pageType ELSE adlGetPageType(p)
      pageName == IF opts.pageName # "" THEN opts.pageName ELSE adlGetPageName(p)
      base == [ brand |-> "velora",
                channel |-> "web|" \o pageType,
                pageName |-> pageName,
                pageType |-> pageType,
                pageUrl |-> Href(p) ]
      product == opts.productDetails
  IN IF pageType = "pdp" /\ product # NoProduct
     THEN [ event |-> "pageLoaded",
            xdmPageLoad |->
              [ custData |-> buildCustData(e),
                web |->
                  [ webPageDetails |->
                      [ brand |-> "velora",
                        channel |-> "web|" \o pageType,
                        pageName |-> "product:" \o toLowerCase(Or(Get(product, "productID"), S("")).s),
                        pageType |-> pageType,
                        pageUrl |-> Href(p),
                        productCategory |-> Or(Get(product, "category"), S("")) ],
                    productDetails |->
                      << [ productID |-> Or(Get(product, "productID"), S("")),
                           sku |-> Or(Get(product, "sku"), S("")),
                           productName |-> Or(Get(product, "productName"), S("")),
                           brand |-> Or(Get(product, "brand"), S("velora")),
                           category |-> Or(Get(product, "category"), S("")),
                           price |-> Or(Get(product, "price"), N(0)),
                           color |-> Or(Get(product, "color"), S("")),
                           size |-> Or(Get(product, "size"), S("")),
                           quantity |-> Or(Get(product, "quantity"), N(1)),
                           currency |-> S("USD") ] >> ] ] ]
     ELSE [ event |-> "pageLoaded",
            xdmPageLoad |-> [ custData |-> buildCustData(e),
                              web |-> [ webPageDetails |-> base ] ] ]

\* trackLinkClick's event object
LinkClickedEvent(e, linkName, linkType, linkPosition, pageName) ==
  [ event |-> "linkClicked",
    custData |-> buildCustData(e),
    xdmActionDetails |->
      [ web |->
          [ webInteraction |->
              [ brand |-> "velora",
                channel |-> "web|" \o pageName,
                linkName |-> linkName,
                linkType |-> linkType,
                linkPosition |-> linkPosition,
                linkPageName |-> pageName ] ] ] ]

-----------------------------------------------------------------------------
(* adl-xdm-helper.js builders *)

\* an object literal with no properties
EmptyObject == [f \in {} |-> U]

Times(a, b) == N(a.n * b.n)

\* p.productId || p.id || ''
ProductIdOf(x) == Or(Or(Get(x, "productId"), Get(x, "id")), S(""))

\* buildXDMStructure({productId, pageType, pageUrl, product, products}); product
\* NoProduct and products <<>> stand for the options not given
buildXDMStructure(productId, pageType, pageUrl, title, product, prods) ==
  LET eVar1 == IF prods # <<>> THEN ProductIdOf(prods[1])
               ELSE IF product # NoProduct THEN ProductIdOf(product)
               ELSE Or(productId, S(""))
      base ==
        [ _experience |->
            [ analytics |->
                [ customDimensions |->
                    [ eVars |-> [eVar1 |-> eVar1, eVar2 |-> pageType, eVar3 |-> pageUrl] ] ] ],
          web |-> [ webPageDetails |->
                      [ pageViews |-> [value |-> 1], name |-> title, URL |-> pageUrl ] ] ]
      commerce ==
        IF product # NoProduct
        THEN [ commerce |->
                 [ productListAdds |->
                     [ value |-> Or(Get(product, "quantity"), N(1)),
                       id |-> ProductIdOf(product),
                       name |-> Or(Or(Get(product, "productName"), Get(product, "name")), S("")),
                       priceTotal |-> Times(Or(Get(product, "price"), N(0)),
                                            Or(Get(product, "quantity"), N(1))) ] ] ]
        ELSE IF prods # <<>> THEN [commerce |-> EmptyObject]
        ELSE EmptyObject
      items ==
        IF prods # <<>>
        THEN [ productListItems |->
                 [ i \in 1..Len(prods) |->
                     [ SKU |-> ProductIdOf(prods[i]),
                       name |-> Or(Or(Get(prods[i], "productName"), Get(prods[i], "name")), S("")),
                       productCategory |-> Or(Or(Get(prods[i], "productCategory"),
                                                 Get(prods[i], "category")), S("")),
                       priceTotal |-> Times(Or(Get(prods[i], "price"), N(0)),
                                            Or(Get(prods[i], "quantity"), N(1))),
                       quantity |-> Or(Get(prods[i], "quantity"), N(1)),
                       position |-> N(i) ] ] ]
        ELSE EmptyObject
  IN base @@ commerce @@ items

\* pushPageView's payload with default options
PageViewPayload(p, e) ==
  LET pageType == getPageType(p)
      pageName == e.title
  IN [ event |-> "pageLoaded",
       xdmPageLoad |->
         [ pageInfo |->
             [ pageName |-> IF pageName # "" THEN pageName \o " | aurora"
                            ELSE "/" \o p.file \o " | aurora",
               pageURL |-> Href(p),
               server |-> "aurora-server" ],
           custData |-> buildCustDataLocal(e) ],
       xdm |-> buildXDMStructure(U, pageType, Href(p), e.title, NoProduct, <<>>),
       page |-> [ pageName |-> pageName, pageType |-> pageType,
                  url |-> Href(p), language |-> "en" ],
       timestamp |-> "iso" ]

\* pushLinkClick's currentPageName
CurrentPageName(p) ==
  IF PathIncludes(p, "pdp.html") \/ p.id # "" THEN "Product Detail | aurora"
  ELSE IF PathIncludes(p, "index.html") THEN "home page | aurora"
  ELSE IF PathIncludes(p, "plp.html") THEN "Shop | aurora"
  ELSE IF PathIncludes(p, "cart.html") THEN "Cart | aurora"
  ELSE IF PathIncludes(p, "checkout.html") THEN "Checkout | aurora"
  ELSE IF PathIncludes(p, "payment.html") THEN "Payment | aurora"
  ELSE IF PathIncludes(p, "thankyou.html") THEN "Thank You | aurora"
  ELSE "unknown | aurora"

\* pushLinkClick's payload
LinkClickPayload(p, e, linkText, linkUrl) ==
  [ event |-> "linkClicked",
    linkName |-> linkText,
    linkType |-> "button",
    linkPosition |-> "",
    pageName |-> CurrentPageName(p),
    pageType |-> getPageType(p),
    pageURL |-> Href(p),
    linkURL |-> linkUrl,
    custData |-> buildCustDataLocal(e),
    xdmActionDetails |->
      [ web |->
          [ webInteraction |->
              [ linkName |-> linkText,
                linkPageName |-> CurrentPageName(p),
                linkPosition |-> "",
                linkType |-> "button",
                linkURL |-> linkUrl,
                productCategory |-> "" ] ] ],
    xdm |-> buildXDMStructure(U, getPageType(p), Href(p), e.title, NoProduct, <<>>),
    timestamp |-> "iso" ]

\* obj after localPushToDataLayer's `if (!obj.timestamp) obj.timestamp = Date.now()`
Stamped(obj) ==
  IF obj.event \in {"linkClicked", "pageLoaded"} /\ "timestamp" \notin DOMAIN obj
  THEN [f \in DOMAIN obj \cup {"timestamp"} |->
          IF f = "timestamp" THEN "now" ELSE obj[f]]
  ELSE obj

\* window.adobeDataLayer.push(obj)
Push(dl, obj) == Append(dl, obj)

\* Persisted with the test of the second branch left out: every event that is
\* not a link click overwrites the page snapshot
PersistedWithoutKindTest(st, ok, obj) ==
  IF ~ok THEN st
  ELSE IF obj.event = "linkClicked" THEN [st EXCEPT ![KeyLink] = JSONItem(Stamped(obj))]
  ELSE [st EXCEPT ![KeyPage] = JSONItem(Stamped(obj))]

\* the sessionStorage localPushToDataLayer leaves: setItem throws while storage
\* is failing and the catch swallows it
Persisted(st, ok, obj) ==
  IF ~ok THEN st
  ELSE IF obj.event = "linkClicked" THEN [st EXCEPT ![KeyLink] = JSONItem(Stamped(obj))]
  ELSE IF obj.event = "pageLoaded" THEN [st EXCEPT ![KeyPage] = JSONItem(Stamped(obj))]
  ELSE st

\* localPushToDataLayer persisting before it pushes, outside any try
localPushPersistFirst(dl, st, ok, obj) ==
  IF ~ok /\ obj.event \in {"linkClicked", "pageLoaded"}
  THEN [log |-> dl, storage |-> st, threw |-> TRUE]
  ELSE [ log |-> Push(dl, Stamped(obj)), storage |-> Persisted(st, ok, obj),
         threw |-> FALSE ]

\* localPushToDataLayer(obj): the object is pushed first and is the one stamped
localPushToDataLayer(dl, st, ok, obj) ==
  [ log |-> Push(dl, Stamped(obj)), storage |-> Persisted(st, ok, obj),
    threw |-> FALSE ]

-----------------------------------------------------------------------------
(* Operation records and timers *)

\* what lastOp records of an operation
Op(name) ==
  [op |-> name, rejected |-> FALSE, prevented |-> FALSE, scheduled |-> FALSE,
   threw |-> FALSE]

\* the delay trackLinkClick gives setTimeout
NavDelay == 300

\* setTimeout(function () { window.location.href = linkURL }, NavDelay): the
\* callback closes over linkURL and the call's eventObject
Timer(url, ev) == [url |-> url, delay |-> NavDelay, elapsed |-> 0, ev |-> ev]

Min(a, b) == IF a < b THEN a ELSE b

\* a new document: the scripts run again, window.adobeDataLayer starts empty
\* and the old document's timers are gone; sessionStorage survives
FreshDocument(target, name) ==
  /\ page' = target
  /\ log' = <<>>
  /\ timers' = <<>>
  /\ lastOp' = Op(name)
  /\ UNCHANGED <<env, storage, storageOK>>

-----------------------------------------------------------------------------
(* window.adl.trackLinkClick *)

\* the calls explored: sig is the signature used, "event" (event, options),
\* "object" (options) or "positional" (linkName, linkType, linkPosition)
LinkCalls ==
  {[sig |-> "event", linkName |-> n, linkURL |-> u, shouldNavigate |-> TRUE]
     : n \in {"", "Shop"}, u \in {"", "plp.html"}}
  \cup {[sig |-> "object", linkName |-> n, linkURL |-> "plp.html", shouldNavigate |-> b]
     : n \in {"", "Shop"}, b \in BOOLEAN}
  \cup {[sig |-> "positional", linkName |-> n, linkURL |-> "", shouldNavigate |-> TRUE]
     : n \in {"", "Shop"}}

\* trackLinkClick setting its timer whenever a linkURL is given, whatever
\* shouldNavigate says
trackLinkClickIgnoringShouldNavigate(call, p, e, dl, tm) ==
  LET linkURL == IF call.sig = "positional" THEN "" ELSE call.linkURL
      prevented == call.sig = "event" /\ linkURL # ""
      eventObject == LinkClickedEvent(e, call.linkName, "navigation", "header",
                                      adlGetPageName(p))
  IN IF call.linkName = ""
     THEN [ log |-> dl, timers |-> tm, rejected |-> TRUE, prevented |-> prevented,
            scheduled |-> FALSE ]
     ELSE [ log |-> Push(dl, eventObject),
            timers |-> IF linkURL # ""
                       THEN Append(tm, Timer(linkURL, eventObject)) ELSE tm,
            rejected |-> FALSE, prevented |-> prevented,
            scheduled |-> linkURL # "" ]

\* trackLinkClick clearing the timers still pending before it sets its own
trackLinkClickDebounced(call, p, e, dl, tm) ==
  LET linkURL == IF call.sig = "positional" THEN "" ELSE call.linkURL
      shouldNavigate == IF call.sig = "positional" THEN FALSE ELSE call.shouldNavigate
      prevented == call.sig = "event" /\ linkURL # ""
      eventObject == LinkClickedEvent(e, call.linkName, "navigation", "header",
                                      adlGetPageName(p))
  IN IF call.linkName = ""
     THEN [ log |-> dl, timers |-> tm, rejected |-> TRUE, prevented |-> prevented,
            scheduled |-> FALSE ]
     ELSE [ log |-> Push(dl, eventObject),
            timers |-> IF linkURL # "" /\ shouldNavigate
                       THEN <<Timer(linkURL, eventObject)>> ELSE tm,
            rejected |-> FALSE, prevented |-> prevented,
            scheduled |-> linkURL # "" /\ shouldNavigate ]

\* trackLinkClick(...) on data layer dl with timers tm: the data layer and the
\* timers it leaves, whether the default action was prevented, whether the call
\* was rejected for want of a linkName and whether a navigation was scheduled
trackLinkClick(call, p, e, dl, tm) ==
  LET linkURL == IF call.sig = "positional" THEN "" ELSE call.linkURL
      shouldNavigate == IF call.sig = "positional" THEN FALSE ELSE call.shouldNavigate
      prevented == call.sig = "event" /\ linkURL # ""
      eventObject == LinkClickedEvent(e, call.linkName, "navigation", "header",
                                      adlGetPageName(p))
  IN IF call.linkName = ""
     THEN [ log |-> dl, timers |-> tm, rejected |-> TRUE, prevented |-> prevented,
            scheduled |-> FALSE ]
     ELSE [ log |-> Push(dl, eventObject),
            timers |-> IF linkURL # "" /\ shouldNavigate
                       THEN Append(tm, Timer(linkURL, eventObject)) ELSE tm,
            rejected |-> FALSE, prevented |-> prevented,
            scheduled |-> linkURL # "" /\ shouldNavigate ]

TrackLinkClick ==
  \E call \in LinkCalls :
    LET r == trackLinkClick(call, page, env, log, timers) IN
    /\ env.adl
    /\ Len(log) < MaxLog
    /\ log' = r.log
    /\ timers' = r.timers
    /\ lastOp' = [call |-> call]
                   @@ [Op("trackLinkClick") EXCEPT !.rejected = r.rejected,
                                                   !.prevented = r.prevented,
                                                   !.scheduled = r.scheduled]
    /\ UNCHANGED <<page, env, storage, storageOK>>

-----------------------------------------------------------------------------
(* window.adl.firePageLoaded *)

FireOptions ==
  { [pageType |-> "", pageName |-> "", productDetails |-> NoProduct],
    [pageType |-> "", pageName |-> "", productDetails |-> AdlProduct(products[1], N(1))] }

FirePageLoaded ==
  \E opts \in FireOptions :
    /\ env.adl
    /\ Len(log) < MaxLog
    /\ log' = Push(log, PageLoadedEvent(page, env, opts))
    /\ lastOp' = Op("firePageLoaded")
    /\ UNCHANGED <<page, env, storage, storageOK, timers>>

-----------------------------------------------------------------------------
(* adl-xdm-helper.js: pushPageView, pushLinkClick *)

\* a helper builder: returns without pushing when its product is missing,
\* otherwise localPushToDataLayer(payload)
HelperPushes(name, missing, payload) ==
  LET r == localPushToDataLayer(log, storage, storageOK, payload) IN
  /\ Len(log) < MaxLog
  /\ log' = IF missing THEN log ELSE r.log
  /\ storage' = IF missing THEN storage ELSE r.storage
  /\ lastOp' = [Op(name) EXCEPT !.rejected = missing, !.threw = ~missing /\ r.threw]
  /\ UNCHANGED <<page, env, storageOK, timers>>

PushPageView ==
  HelperPushes("pushPageView", FALSE, PageViewPayload(page, env))

PushLinkClick ==
  \E linkUrl \in {"plp.html"} :
    HelperPushes("pushLinkClick", FALSE, LinkClickPayload(page, env, "Shop", linkUrl))

-----------------------------------------------------------------------------
(* The browser: time, timer callbacks, user navigation *)

\* time passes for every pending timer
Tick ==
  /\ \E i \in 1..Len(timers) : timers[i].elapsed < timers[i].delay
  /\ timers' = [i \in 1..Len(timers) |->
                  [timers[i] EXCEPT !.elapsed = Min(@ + NavDelay \div 2, timers[i].delay)]]
  /\ lastOp' = Op("tick")
  /\ UNCHANGED <<page, env, log, storage, storageOK>>

\* the earliest timer's callback runs once its delay has elapsed:
\* window.location.href = linkURL
TimerFire ==
  /\ timers # <<>>
  /\ timers[1].elapsed >= timers[1].delay
  /\ FreshDocument(PageOfURL(timers[1].url), "navigate")

\* the user opens a page of the site
Load ==
  \E target \in Pages : FreshDocument(target, "load")

-----------------------------------------------------------------------------
(* The specification *)

EmptyStorage == [k \in Keys |-> Absent]

Init ==
  /\ page \in Pages
  /\ env \in EnvSet
  /\ log = <<>>
  /\ storage = EmptyStorage
  /\ storageOK = TRUE
  /\ timers = <<>>
  /\ lastOp = Op("load")

Next ==
  \/ Load
  \/ FirePageLoaded
  \/ PushPageView
  \/ TrackLinkClick
  \/ PushLinkClick
  \/ Tick
  \/ TimerFire

Spec == Init /\ [][Next]_vars

-----------------------------------------------------------------------------
(* window.adl commerce builders (adl-utils.js) *)

\* null passed for a cart or an order
NoCart == [none |-> TRUE]
NoOrder == [none |-> TRUE]

\* the product shape of removeFromCart, scView, scCheckout and scPurchase
CommerceProduct(product) ==
  [ sku |-> Or(Get(product, "sku"), S("")),
    productID |-> Get(product, "productID"),
    productName |-> Get(product, "productName"),
    brand |-> Or(Get(product, "brand"), S("velora")),
    category |-> Or(Get(product, "category"), S("")),
    price |-> Or(Get(product, "price"), N(0)),
    color |-> Or(Get(product, "color"), S("")),
    size |-> Or(Get(product, "size"), S("")),
    quantity |-> Or(Get(product, "quantity"), N(1)),
    currencyCode |-> S("USD") ]

\* (x.products || []).map(...)
CommerceProducts(x) ==
  IF "products" \in DOMAIN x
  THEN [i \in 1..Len(x.products) |-> CommerceProduct(x.products[i])]
  ELSE <<>>

AddToCartEvent(e, product) ==
  [ event |-> "addToCart",
    custData |-> buildCustData(e),
    xdmCommerce |->
      [ product |->
          [ sku |-> Or(Get(product, "sku"), S("")),
            productID |-> Get(product, "productID"),
            productName |-> Get(product, "productName"),
            brand |-> Or(Get(product, "brand"), S("velora")),
            category |-> Get(product, "category"),
            color |-> Or(Get(product, "color"), S("")),
            size |-> Or(Get(product, "size"), S("")),
            price |-> Get(product, "price"),
            quantity |-> Or(Get(product, "quantity"), N(1)),
            currencyCode |-> S("USD") ]
          @@ (IF Truthy(Get(product, "linkPosition")) \/ Truthy(Get(product, "linkType"))
              THEN [ linkPosition |-> Or(Get(product, "linkPosition"), S("")),
                     linkType |-> Or(Get(product, "linkType"), S("")) ]
              ELSE EmptyObject) ] ]

\* trackAddToCart whose productID check reports the error and does not return
trackAddToCartNoReturn(product, e, dl) ==
  IF product = NoProduct
  THEN [log |-> dl, rejected |-> TRUE]
  ELSE [ log |-> Push(dl, AddToCartEvent(e, product)),
         rejected |-> ~Truthy(Get(product, "productID")) ]

\* window.adl.trackAddToCart(product) on data layer dl
trackAddToCart(product, e, dl) ==
  IF product = NoProduct \/ ~Truthy(Get(product, "productID"))
  THEN [log |-> dl, rejected |-> TRUE]
  ELSE [log |-> Push(dl, AddToCartEvent(e, product)), rejected |-> FALSE]

\* window.adl.trackRemoveFromCart(product)
trackRemoveFromCart(product, e, dl) ==
  IF product = NoProduct \/ ~Truthy(Get(product, "productID"))
  THEN [log |-> dl, rejected |-> TRUE]
  ELSE [ log |-> Push(dl, [ event |-> "removeFromCart",
                            custData |-> buildCustData(e),
                            xdmCommerce |-> [product |-> CommerceProduct(product)] ]),
         rejected |-> FALSE ]

\* window.adl.trackShoppingCartView(cart)
trackShoppingCartView(cart, e, dl) ==
  IF cart = NoCart
  THEN [log |-> dl, rejected |-> TRUE]
  ELSE [ log |-> Push(dl, [ event |-> "scView",
                            custData |-> buildCustData(e),
                            xdmCommerce |->
                              [ cart |->
                                  [ totalQuantity |-> Or(Get(cart, "totalQuantity"), N(0)),
                                    totalValue |-> Or(Get(cart, "totalValue"), N(0)),
                                    products |-> CommerceProducts(cart) ] ] ]),
         rejected |-> FALSE ]

\* window.adl.trackBeginCheckout(cart)
trackBeginCheckout(cart, e, dl) ==
  IF cart = NoCart
  THEN [log |-> dl, rejected |-> TRUE]
  ELSE [ log |-> Push(dl, [ event |-> "beginCheckout",
                            custData |-> buildCustData(e),
                            xdmCommerce |->
                              [ checkout |->
                                  [ totalQuantity |-> Or(Get(cart, "totalQuantity"), N(0)),
                                    totalValue |-> Or(Get(cart, "totalValue"), N(0)) ] ] ]),
         rejected |-> FALSE ]

\* window.adl.trackCheckout(cart)
trackCheckout(cart, e, dl) ==
  IF cart = NoCart
  THEN [log |-> dl, rejected |-> TRUE]
  ELSE [ log |-> Push(dl, [ event |-> "scCheckout",
                            custData |-> buildCustData(e),
                            xdmCommerce |->
                              [ checkout |->
                                  [ totalQuantity |-> Or(Get(cart, "totalQuantity"), N(0)),
                                    totalValue |-> Or(Get(cart, "totalValue"), N(0)),
                                    products |-> CommerceProducts(cart) ] ] ]),
         rejected |-> FALSE ]

\* custData of scPurchase: the customer's e-mail replaces customerID when given
PurchaseCustData(e, order) ==
  LET email == Or(Get(order, "customerEmail"), Get(order, "email")) IN
  [buildCustData(e) EXCEPT !.customerID = IF Truthy(email) THEN email.s ELSE @]

PurchaseEvent(e, order) ==
  [ event |-> "scPurchase",
    custData |-> PurchaseCustData(e, order),
    xdmCommerce |->
      [ order |->
          [ orderID |-> Get(order, "orderID"),
            totalQuantity |-> Or(Get(order, "totalQuantity"), N(0)),
            subtotal |-> Or(Get(order, "subtotal"), N(0)),
            shipping |-> Or(Get(order, "shipping"), N(0)),
            tax |-> Or(Get(order, "tax"), N(0)),
            totalValue |-> Or(Get(order, "totalValue"), N(0)),
            paymentMethod |-> Or(Get(order, "paymentMethod"), S("credit_card")),
            currencyCode |-> S("USD"),
            products |-> CommerceProducts(order),
            shippingAddress |->
              [ firstName |-> Or(Get(order, "firstName"), S("")),
                lastName |-> Or(Get(order, "lastName"), S("")),
                email |-> Or(Get(order, "email"), S("")),
                address |-> Or(Get(order, "address"), S("")),
                city |-> Or(Get(order, "city"), S("")),
                state |-> Or(Get(order, "state"), S("")),
                zipCode |-> Or(Get(order, "zipCode"), S("")) ] ] ] ]

\* window.adl.trackPurchase(order)
trackPurchase(order, e, dl) ==
  IF order = NoOrder \/ ~Truthy(Get(order, "orderID"))
  THEN [log |-> dl, rejected |-> TRUE]
  ELSE [log |-> Push(dl, PurchaseEvent(e, order)), rejected |-> FALSE]

\* the arguments explored: null, an object without its identifying field, and
\* a well-formed object
ProductArgs ==
  {NoProduct, [productName |-> S("Mystery")], AdlProduct(products[1], N(1))}

CartSummary ==
  [ totalQuantity |-> N(1), totalValue |-> N(2499),
    products |-> <<AdlProduct(products[1], N(1))>> ]

CartArgs == {NoCart, CartSummary}

OrderArgs ==
  { NoOrder,
    [totalValue |-> N(2499)],
    [ orderID |-> S("ORD-1"), email |-> S("a@b.c"), totalQuantity |-> N(1),
      totalValue |-> N(2499), products |-> <<AdlProduct(products[1], N(1))>> ] }

\* a builder that only appends or rejects
Builds(name, r) ==
  /\ env.adl
  /\ Len(log) < MaxLog
  /\ log' = r.log
  /\ lastOp' = [Op(name) EXCEPT !.rejected = r.rejected]
  /\ UNCHANGED <<page, env, storage, storageOK, timers>>

TrackAddToCart ==
  \E product \in ProductArgs : Builds("trackAddToCart", trackAddToCart(product, env, log))

TrackRemoveFromCart ==
  \E product \in ProductArgs :
    Builds("trackRemoveFromCart", trackRemoveFromCart(product, env, log))

TrackShoppingCartView ==
  \E cart \in CartArgs :
    Builds("trackShoppingCartView", trackShoppingCartView(cart, env, log))

TrackBeginCheckout ==
  \E cart \in CartArgs : Builds("trackBeginCheckout", trackBeginCheckout(cart, env, log))

TrackCheckout ==
  \E cart \in CartArgs : Builds("trackCheckout", trackCheckout(cart, env, log))

TrackPurchase ==
  \E order \in OrderArgs : Builds("trackPurchase", trackPurchase(order, env, log))

-----------------------------------------------------------------------------
(* adl-xdm-helper.js commerce builders *)

\* the product entry of scAdd and productDetail payloads
HelperProduct(product) ==
  [ productId |-> Or(Or(Get(product, "id"), Get(product, "productId")), S("")),
    productName |-> Or(Or(Get(product, "name"), Get(product, "productName")), S("")),
    productCategory |-> Or(Or(Get(product, "category"), Get(product, "productCategory")), S("")),
    brand |-> Or(Get(product, "brand"), S("")),
    price |-> Or(Get(product, "price"), N(0)) ]

\* pushAddToCart(product, quantity, cartItems) with no cart items passed
AddToCartPayload(p, e, product, quantity) ==
  LET hp == HelperProduct(product) IN
  [ event |-> "scAdd",
    custData |-> buildCustDataLocal(e),
    xdm |-> buildXDMStructure(hp.productId, getPageType(p), Href(p), e.title,
              [ productId |-> hp.productId, productName |-> hp.productName,
                productCategory |-> hp.productCategory, price |-> hp.price,
                quantity |-> quantity ], <<>>),
    product |-> << hp @@ [quantity |-> quantity] >>,
    cart |-> [ items |-> <<>>, total |-> Times(hp.price, quantity) ],
    page |-> [ pageName |-> e.title, pageType |-> getPageType(p), url |-> Href(p) ],
    timestamp |-> "iso" ]

\* pushProductDetailView(product)
ProductDetailPayload(p, e, product) ==
  LET hp == HelperProduct(product) IN
  [ event |-> "productDetail",
    custData |-> buildCustDataLocal(e),
    xdm |-> buildXDMStructure(hp.productId, "pdp", Href(p), e.title,
              [ productId |-> hp.productId, productName |-> hp.productName,
                productCategory |-> hp.productCategory, price |-> hp.price,
                quantity |-> N(1) ], <<>>),
    product |-> << hp @@ [position |-> N(1)] >>,
    page |-> [ pageName |-> e.title, pageType |-> "pdp", url |-> Href(p) ],
    timestamp |-> "iso" ]

\* pushProductListView(products)
ProductListPayload(p, e, prods) ==
  [ event |-> "productImpression",
    custData |-> buildCustDataLocal(e),
    xdm |-> buildXDMStructure(U, "plp", Href(p), e.title, NoProduct,
              [ i \in 1..Len(prods) |->
                  HelperProduct(prods[i])
                    @@ [position |-> Or(Get(prods[i], "position"), N(1))] ]),
    productList |-> [ i \in 1..Len(prods) |-> HelperProduct(prods[i]) @@ [position |-> N(i)] ],
    page |-> [ pageName |-> e.title, pageType |-> "plp", url |-> Href(p) ],
    timestamp |-> "iso" ]

PushAddToCart ==
  \E product \in {NoProduct, products[1]} :
    HelperPushes("pushAddToCart", product = NoProduct,
                 AddToCartPayload(page, env, product, N(1)))

PushProductDetailView ==
  \E product \in {NoProduct, products[1]} :
    HelperPushes("pushProductDetailView", product = NoProduct,
                 ProductDetailPayload(page, env, product))

PushProductListView ==
  HelperPushes("pushProductListView", FALSE, ProductListPayload(page, env, products))

-----------------------------------------------------------------------------
(* The builders alone, within one document *)

NextBuild ==
  \/ FirePageLoaded
  \/ PushPageView
  \/ TrackLinkClick
  \/ PushLinkClick
  \/ TrackAddToCart
  \/ TrackRemoveFromCart
  \/ TrackShoppingCartView
  \/ TrackBeginCheckout
  \/ TrackCheckout
  \/ TrackPurchase
  \/ PushAddToCart
  \/ PushProductDetailView
  \/ PushProductListView

SpecBuild == Init /\ [][NextBuild]_vars

-----------------------------------------------------------------------------
(* Reading the data layer and the snapshots *)

PageLoadOps == {"firePageLoaded", "pushPageView"}
FreshOps == {"load", "navigate"}

\* the persisted event under a key, as a sequence of at most one event
Snapshot(st, key) == IF st[key].kind = "json" THEN <<st[key].v>> ELSE <<>>

\* the URL a pageLoaded event was built for
PageLoadURL(ev) ==
  IF "web" \in DOMAIN ev.xdmPageLoad
  THEN ev.xdmPageLoad.web.webPageDetails.pageUrl
  ELSE ev.xdmPageLoad.pageInfo.pageURL

\* the positions of the pageLoaded events built for page p
PageLoadsFor(dl, p) ==
  {i \in 1..Len(dl) : dl[i].event = "pageLoaded" /\ PageLoadURL(dl[i]) = Href(p)}

\* the positions of the events of one kind
OfKind(dl, kind) == {i \in 1..Len(dl) : dl[i].event = kind}

Last(set) == CHOOSE i \in set : \A j \in set : j <= i

SnapshotKey(kind) == IF kind = "linkClicked" THEN KeyLink ELSE KeyPage

-----------------------------------------------------------------------------
(* JavaScript conversions used by the normalizer *)

\* largest number whose decimal numeral Number() is asked to read
MaxNumeral == 12

Digit(d) ==
  CASE d = 0 -> "0" [] d = 1 -> "1" [] d = 2 -> "2" [] d = 3 -> "3"
    [] d = 4 -> "4" [] d = 5 -> "5" [] d = 6 -> "6" [] d = 7 -> "7"
    [] d = 8 -> "8" [] d = 9 -> "9"

RECURSIVE Numeral(_)
\* the decimal numeral of a natural number
Numeral(k) == IF k < 10 THEN Digit(k) ELSE Numeral(k \div 10) \o Digit(k % 10)

\* String(v) of a string or a number
String(v) == IF v.t = "n" THEN S(Numeral(v.n)) ELSE v

\* Number(v): a number is itself, '' is 0, a decimal numeral is its value, any
\* other string and undefined are NaN
Number(v) ==
  IF v.t = "n" THEN v
  ELSE IF v.t = "s" /\ v.s = "" THEN N(0)
  ELSE IF v.t = "s" /\ \E k \in 0..MaxNumeral : Numeral(k) = v.s
  THEN N(CHOOSE k \in 0..MaxNumeral : Numeral(k) = v.s)
  ELSE NaN

-----------------------------------------------------------------------------
(* XDM normalizer (window.adlXDM) *)

\* null: a data layer entry, a parse result or a return value
Null == [null |-> TRUE]
IsNull(v) == "null" \in DOMAIN v

\* o.f is present
Has(o, f) == f \in DOMAIN o
\* o.a && o.a.b
Has2(o, a, b) == Has(o, a) /\ Has(o[a], b)
\* o.a && o.a.b && o.a.b.c
Has3(o, a, b, c) == Has2(o, a, b) /\ Has(o[a][b], c)

\* window.products: client.js declares its catalog with const, which creates
\* no property of window
WindowProducts == <<>>

\* sessionStorage.getItem(key): throws while storage is failing
getItem(st, ok, key) == [threw |-> ~ok, item |-> IF ok THEN st[key] ELSE Absent]

\* safeJSONParse(value): null for a missing item (JSON.parse(null)) and for one
\* JSON.parse rejects
safeJSONParse(item) == IF item.kind = "json" THEN item.v ELSE Null

\* safeJSONParse(sessionStorage.getItem(key)) inside a try whose catch is empty
ReadParsed(st, ok, key) ==
  LET rd == getItem(st, ok, key) IN
  IF rd.threw THEN Null ELSE safeJSONParse(rd.item)

\* the array stored under key, [] when the read throws or gives no array; the
\* keys read this way only ever hold arrays
ReadArray(st, ok, key) ==
  LET rd == getItem(st, ok, key) IN
  IF ~rd.threw /\ rd.item.kind = "json" THEN rd.item.v ELSE <<>>

\* getQueryParam(name)
getQueryParam(p, name) == IF name = "id" THEN p.id ELSE ""

\* ev.event === eventName
EventIs(ev, eventName) == Has(ev, "event") /\ ev.event = eventName

\* findLatestDLEvent(eventName)
findLatestDLEvent(dl, eventName) ==
  LET hits == { i \in 1..Len(dl) :
                  /\ ~IsNull(dl[i])
                  /\ \/ EventIs(dl[i], eventName)
                     \/ eventName = "pageLoaded" /\ Has(dl[i], "xdmPageLoad") }
  IN IF hits = {} THEN Null ELSE dl[Last(hits)]

\* normalizeProduct reading source.category alone
normalizeProductCategoryOnly(source) ==
  IF source = NoProduct THEN NoProduct
  ELSE
    LET id == Or(Or(Or(Or(Get(source, "productID"), Get(source, "id")),
                       Get(source, "sku")), Get(source, "SKU")), S(""))
        name == Or(Or(Or(Get(source, "productName"), Get(source, "name")),
                      Get(source, "product_name")), S(""))
        category == Or(Get(source, "category"), S(""))
        price == Or(Number(Or(Or(Or(Get(source, "price"), Get(source, "priceTotal")),
                                 Get(source, "unitPrice")), N(0))), N(0))
        quantity == Or(Number(Or(Or(Get(source, "quantity"), Get(source, "qty")), N(1))), N(1))
        brand == Or(Get(source, "brand"), S(""))
        image == Or(Or(Get(source, "image"), Get(source, "imageUrl")), S(""))
    IN [ SKU |-> IF Truthy(id) THEN String(id) ELSE S(""),
         productID |-> IF Truthy(id) THEN String(id) ELSE S(""),
         productName |-> Or(name, S("")),
         productCategory |-> Or(category, S("")),
         price |-> price,
         quantity |-> quantity,
         brand |-> Or(brand, S("")),
         image |-> Or(image, S("")) ]

\* normalizeProduct(source); NoProduct stands for null and for a non-object
normalizeProduct(source) ==
  IF source = NoProduct THEN NoProduct
  ELSE
    LET id == Or(Or(Or(Or(Get(source, "productID"), Get(source, "id")),
                       Get(source, "sku")), Get(source, "SKU")), S(""))
        name == Or(Or(Or(Get(source, "productName"), Get(source, "name")),
                      Get(source, "product_name")), S(""))
        category == Or(Or(Get(source, "category"), Get(source, "productCategory")), S(""))
        price == Or(Number(Or(Or(Or(Get(source, "price"), Get(source, "priceTotal")),
                                 Get(source, "unitPrice")), N(0))), N(0))
        quantity == Or(Number(Or(Or(Get(source, "quantity"), Get(source, "qty")), N(1))), N(1))
        brand == Or(Get(source, "brand"), S(""))
        image == Or(Or(Get(source, "image"), Get(source, "imageUrl")), S(""))
    IN [ SKU |-> IF Truthy(id) THEN String(id) ELSE S(""),
         productID |-> IF Truthy(id) THEN String(id) ELSE S(""),
         productName |-> Or(name, S("")),
         productCategory |-> Or(category, S("")),
         price |-> price,
         quantity |-> quantity,
         brand |-> Or(brand, S("")),
         image |-> Or(image, S("")) ]

\* list.map(normalizeProduct).filter(Boolean)
Normalized(list) ==
  SelectSeq([i \in 1..Len(list) |-> normalizeProduct(list[i])],
            LAMBDA x : x # NoProduct)

\* the first array buildProductListItemsFromPDP finds in pdpEvent, as a
\* sequence of at most one list
PdpList(ev) ==
  IF Has2(ev, "xdm", "productListItems") THEN <<ev.xdm.productListItems>>
  ELSE IF Has3(ev, "xdmPageLoad", "web", "productDetails")
  THEN <<ev.xdmPageLoad.web.productDetails>>
  ELSE IF Has(ev, "product") THEN <<ev.product>>
  ELSE IF Has(ev, "productDetails") THEN <<ev.productDetails>>
  ELSE <<>>

\* buildProductListItemsFromPDP(): <<list>>, or <<>> for null
buildProductListItemsFromPDP(p, dl) ==
  LET id == getQueryParam(p, "id")
      found == {i \in 1..Len(WindowProducts) : String(WindowProducts[i].id).s = id}
  IN
  With(findLatestDLEvent(dl, "productDetail"), LAMBDA detail :
  With(IF IsNull(detail) THEN findLatestDLEvent(dl, "pageLoaded") ELSE detail,
       LAMBDA pdpEvent :
  With(IF IsNull(pdpEvent) THEN <<>> ELSE PdpList(pdpEvent), LAMBDA list :
     IF list # <<>> /\ Len(list[1]) > 0 THEN <<Normalized(list[1])>>
     ELSE IF id # "" /\ found # {}
     THEN LET f == WindowProducts[CHOOSE i \in found : \A j \in found : i <= j] IN
          << <<normalizeProduct(
                 [ productID |-> S("VEL-" \o String(f.id).s),
                   sku |-> Or(Get(f, "sku"), String(f.id)),
                   productName |-> Get(f, "name"),
                   productCategory |-> Get(f, "category"),
                   price |-> Or(Get(f, "price"), N(0)),
                   quantity |-> N(1),
                   brand |-> Or(Get(f, "brand"), S("")) ])>> >>
     ELSE <<>> )))

\* the source object buildProductListItemsFromCartOrStorage makes of a cart item
CartItemSource(c) ==
  [ productID |-> IF Truthy(Get(c, "id")) THEN S("VEL-" \o String(c.id).s)
                  ELSE Or(Get(c, "productID"), S("")),
    sku |-> Or(Get(c, "sku"), Get(c, "id")),
    productName |-> Or(Or(Get(c, "name"), Get(c, "productName")), S("")),
    productCategory |-> Or(Or(Get(c, "category"), Get(c, "productCategory")), S("")),
    price |-> Or(Get(c, "price"), N(0)),
    quantity |-> Or(Or(Get(c, "quantity"), Get(c, "qty")), N(1)),
    brand |-> Or(Get(c, "brand"), S("")) ]

\* buildProductListItemsFromCartOrStorage reading the persisted list alone
buildProductListItemsStorageOnly(st, ok) ==
  With(ReadArray(st, ok, KeyProducts), LAMBDA stored :
     IF Len(stored) > 0 THEN <<Normalized(stored)>> ELSE <<>> )

\* buildProductListItemsFromCartOrStorage trying velora_cart before the
\* persisted list
buildProductListItemsCartFirst(st, ok) ==
  With(ReadArray(st, ok, KeyProducts), LAMBDA stored :
  With(ReadArray(st, ok, KeyCart), LAMBDA cart :
     IF Len(cart) > 0
     THEN <<Normalized([i \in 1..Len(cart) |-> CartItemSource(cart[i])])>>
     ELSE IF Len(stored) > 0 THEN <<Normalized(stored)>>
     ELSE <<>> ))

\* buildProductListItemsFromCartOrStorage(): <<list>>, or <<>> for null
buildProductListItemsFromCartOrStorage(st, ok) ==
  With(ReadArray(st, ok, KeyProducts), LAMBDA stored :
  With(ReadArray(st, ok, KeyCart), LAMBDA cart :
     IF Len(stored) > 0 THEN <<Normalized(stored)>>
     ELSE IF Len(cart) > 0
     THEN <<Normalized([i \in 1..Len(cart) |-> CartItemSource(cart[i])])>>
     ELSE <<>> ))

\* the sessionStorage persistProductListItems(list) leaves
persistProductListItems(st, ok, list) ==
  IF ok THEN [st EXCEPT ![KeyProducts] = JSONItem(Normalized(list))] ELSE st

\* the page details derived from the document as a last resort
DerivedPageDetails(p, e) ==
  LET pageType == IF e.adl THEN adlGetPageType(p) ELSE p.file IN
  [ pageName |-> IF e.title # "" THEN e.title \o " | velora" ELSE pageType \o " | velora",
    pageType |-> pageType,
    pageUrl |-> Href(p),
    brand |-> "velora",
    channel |-> "web|" \o pageType ]

\* buildPageDetails with the storage read outside its try
buildPageDetailsUnguarded(p, e, dl, st, ok) ==
  With(safeJSONParse(getItem(st, ok, KeyNormPage).item), LAMBDA storedPage :
  With(findLatestDLEvent(dl, "pageLoaded"), LAMBDA pageEv :
     [ threw |-> ~ok,
       v |-> IF Has3(storedPage, "xdmPageLoad", "web", "webPageDetails")
             THEN storedPage.xdmPageLoad.web.webPageDetails
             ELSE IF Has3(pageEv, "xdm", "web", "webPageDetails")
             THEN pageEv.xdm.web.webPageDetails
             ELSE IF Has3(pageEv, "xdmPageLoad", "web", "webPageDetails")
             THEN pageEv.xdmPageLoad.web.webPageDetails
             ELSE DerivedPageDetails(p, e) ] ))

\* buildPageDetails(): the value returned and whether an exception escaped
buildPageDetails(p, e, dl, st, ok) ==
  With(ReadParsed(st, ok, KeyNormPage), LAMBDA storedPage :
  With(findLatestDLEvent(dl, "pageLoaded"), LAMBDA pageEv :
     [ threw |-> FALSE,
       v |-> IF Has3(storedPage, "xdmPageLoad", "web", "webPageDetails")
             THEN storedPage.xdmPageLoad.web.webPageDetails
             ELSE IF Has3(pageEv, "xdm", "web", "webPageDetails")
             THEN pageEv.xdm.web.webPageDetails
             ELSE IF Has3(pageEv, "xdmPageLoad", "web", "webPageDetails")
             THEN pageEv.xdmPageLoad.web.webPageDetails
             ELSE DerivedPageDetails(p, e) ] ))

\* ev.event.toLowerCase().indexOf('purchase') !== -1 || ev.event === 'orderCompleted',
\* for the event names of the site
IsPurchaseEvent(ev) ==
  Has(ev, "event") /\ ev.event \in {"purchase", "scPurchase", "orderCompleted"}

\* buildOrderDetailsIfPresent without its page test
buildOrderDetailsOnAnyPage(p, e, dl, st, ok) ==
  LET hits == { i \in 1..Len(dl) :
                  /\ ~IsNull(dl[i])
                  /\ \/ IsPurchaseEvent(dl[i])
                     \/ Has3(dl[i], "xdmPageLoad", "web", "order") }
  IN IF hits # {}
     THEN With(dl[Last(hits)], LAMBDA ev :
          IF IsPurchaseEvent(ev)
          THEN IF Has(ev, "order") THEN ev.order
               ELSE IF Has3(ev, "xdm", "commerce", "order") THEN ev.xdm.commerce.order
               ELSE IF Has(ev, "orderDetails") THEN ev.orderDetails
               ELSE Null
          ELSE ev.xdmPageLoad.web.order)
     ELSE ReadParsed(st, ok, KeyOrder)

\* buildOrderDetailsIfPresent(): the order object or null
buildOrderDetailsIfPresent(p, e, dl, st, ok) ==
  LET pageType == IF e.adl THEN adlGetPageType(p) ELSE ""
      isThankYou == pageType = "confirmation" \/ PathIncludes(p, "thankyou")
      hits == { i \in 1..Len(dl) :
                  /\ ~IsNull(dl[i])
                  /\ \/ IsPurchaseEvent(dl[i])
                     \/ Has3(dl[i], "xdmPageLoad", "web", "order") }
  IN IF ~isThankYou THEN Null
     ELSE IF hits # {}
     THEN With(dl[Last(hits)], LAMBDA ev :
          IF IsPurchaseEvent(ev)
          THEN IF Has(ev, "order") THEN ev.order
               ELSE IF Has3(ev, "xdm", "commerce", "order") THEN ev.xdm.commerce.order
               ELSE IF Has(ev, "orderDetails") THEN ev.orderDetails
               ELSE Null
          ELSE ev.xdmPageLoad.web.order)
     ELSE ReadParsed(st, ok, KeyOrder)

\* location.pathname.indexOf('pdp') !== -1 || getQueryParam('id')
IsPDPLike(p) == PathIncludes(p, "pdp") \/ getQueryParam(p, "id") # ""

\* buildUnifiedXDM reading the stored list or the cart before the product page's
\* own capture, which it still persists
buildUnifiedXDMStorageFirst(p, e, dl, st, ok) ==
  With(buildPageDetails(p, e, dl, st, ok), LAMBDA details :
  With(IF IsPDPLike(p) THEN buildProductListItemsFromPDP(p, dl) ELSE <<>>,
       LAMBDA fromPDP :
  With(fromPDP # <<>> /\ Len(fromPDP[1]) > 0, LAMBDA captured :
  With(IF captured THEN persistProductListItems(st, ok, fromPDP[1]) ELSE st,
       LAMBDA st1 :
  With(buildProductListItemsFromCartOrStorage(st, ok), LAMBDA kept :
  With(IF kept # <<>> /\ Len(kept[1]) > 0 THEN kept ELSE fromPDP, LAMBDA found :
  With(buildOrderDetailsIfPresent(p, e, dl, st1, ok), LAMBDA order :
     [ threw |-> details.threw,
       storage |-> IF details.threw THEN st ELSE st1,
       ret |-> [ xdm |->
                   [ web |-> [webPageDetails |-> details.v],
                     commerce |->
                       [productListItems |->
                          Normalized(IF found # <<>> THEN found[1] ELSE <<>>)]
                         @@ (IF IsNull(order) THEN EmptyObject ELSE [order |-> order]) ],
                 custData |-> IF e.adl THEN buildCustData(e) ELSE Null ] ] )))))))

\* buildUnifiedXDM(): the object returned, the sessionStorage left and whether
\* an exception escaped
buildUnifiedXDM(p, e, dl, st, ok) ==
  With(buildPageDetails(p, e, dl, st, ok), LAMBDA details :
  With(IF IsPDPLike(p) THEN buildProductListItemsFromPDP(p, dl) ELSE <<>>,
       LAMBDA fromPDP :
  With(fromPDP # <<>> /\ Len(fromPDP[1]) > 0, LAMBDA captured :
  With(IF captured THEN persistProductListItems(st, ok, fromPDP[1]) ELSE st,
       LAMBDA st1 :
  With(IF captured THEN fromPDP
       ELSE buildProductListItemsFromCartOrStorage(st1, ok), LAMBDA found :
  With(buildOrderDetailsIfPresent(p, e, dl, st1, ok), LAMBDA order :
     [ threw |-> details.threw,
       storage |-> IF details.threw THEN st ELSE st1,
       ret |-> [ xdm |->
                   [ web |-> [webPageDetails |-> details.v],
                     commerce |->
                       [productListItems |->
                          Normalized(IF found # <<>> THEN found[1] ELSE <<>>)]
                         @@ (IF IsNull(order) THEN EmptyObject ELSE [order |-> order]) ],
                 custData |-> IF e.adl THEN buildCustData(e) ELSE Null ] ] ))))))

\* the object getUnifiedXDM's catch returns
DefaultXDM ==
  [ xdm |-> [ web |-> [webPageDetails |-> EmptyObject],
              commerce |-> [productListItems |-> <<>>] ],
    custData |-> Null ]

\* window.adlXDM.getUnifiedXDM()
getUnifiedXDM(p, e, dl, st, ok) ==
  With(buildUnifiedXDM(p, e, dl, st, ok), LAMBDA r :
     [ threw |-> FALSE,
       storage |-> r.storage,
       ret |-> IF r.threw THEN DefaultXDM ELSE r.ret ])

\* an operation that returns a value and may write sessionStorage
Returns(name, ret, st) ==
  /\ lastOp' = [ret |-> ret] @@ Op(name)
  /\ storage' = st
  /\ UNCHANGED <<page, env, log, storageOK, timers>>

GetUnifiedXDM ==
  \E r \in {getUnifiedXDM(page, env, log, storage, storageOK)} :
    /\ lastOp' = [ret |-> r.ret] @@ [Op("getUnifiedXDM") EXCEPT !.threw = r.threw]
    /\ storage' = r.storage
    /\ UNCHANGED <<page, env, log, storageOK, timers>>

\* the DOMContentLoaded listener the normalizer registers on a PDP-like page
AutoCapture ==
  \E captured \in {buildProductListItemsFromPDP(page, log)} :
    /\ IsPDPLike(page)
    /\ lastOp' = Op("autoCapture")
    /\ storage' = IF captured # <<>> /\ Len(captured[1]) > 0
                  THEN persistProductListItems(storage, storageOK, captured[1])
                  ELSE storage
    /\ UNCHANGED <<page, env, log, storageOK, timers>>

-----------------------------------------------------------------------------
(* Cart operations (client.js) *)

\* largest quantity of one cart item explored
MaxQuantity == 2

\* getCart(): [] when the read throws, the item is missing or unparsable
getCart(st, ok) == ReadArray(st, ok, KeyCart)

\* the sessionStorage setCart(cart) leaves
setCart(st, ok, cart) == IF ok THEN [st EXCEPT ![KeyCart] = JSONItem(cart)] ELSE st

\* the positions of the items with the given id
Find(list, id) == {i \in 1..Len(list) : String(list[i].id).s = id}

First(set) == CHOOSE i \in set : \A j \in set : i <= j

\* handleAddToCart pushing a new entry even when the cart has one for the product
handleAddToCartAlwaysPush(productId, qty, e, dl, st, ok) ==
  LET prod == products[First(Find(products, productId))]
      cart == getCart(st, ok)
      tracked == trackAddToCart([ productID |-> Or(prod.id, S("")),
                                  productName |-> Or(prod.name, S("")),
                                  category |-> Or(prod.category, S("")),
                                  price |-> Or(prod.price, N(0)),
                                  quantity |-> N(qty) ], e, dl)
  IN IF Find(products, productId) = {}
     THEN [log |-> dl, storage |-> st, found |-> FALSE]
     ELSE [ log |-> IF e.adl THEN tracked.log ELSE dl,
            storage |-> setCart(st, ok, Append(cart, prod @@ [quantity |-> N(qty)])),
            found |-> TRUE ]

\* handleAddToCart(productId, qty): the data layer and sessionStorage it leaves
handleAddToCart(productId, qty, e, dl, st, ok) ==
  LET prod == products[First(Find(products, productId))]
      cart == getCart(st, ok)
      existing == Find(cart, productId)
      updated ==
        IF existing # {}
        THEN [cart EXCEPT ![First(existing)].quantity =
                N(Or(Get(cart[First(existing)], "quantity"), N(1)).n + qty)]
        ELSE Append(cart, prod @@ [quantity |-> N(qty)])
      tracked == trackAddToCart([ productID |-> Or(prod.id, S("")),
                                  productName |-> Or(prod.name, S("")),
                                  category |-> Or(prod.category, S("")),
                                  price |-> Or(prod.price, N(0)),
                                  quantity |-> N(qty) ], e, dl)
  IN IF Find(products, productId) = {}
     THEN [log |-> dl, storage |-> st, found |-> FALSE]
     ELSE [ log |-> IF e.adl THEN tracked.log ELSE dl,
            storage |-> setCart(st, ok, updated),
            found |-> TRUE ]

\* updateCartQuantity with an updateProductDetails that rewrites web.productDetails
\* of the pageLoaded events already in the data layer
updateCartQuantityRewriting(productId, newQuantity, dl, st, ok) ==
  LET cart == getCart(st, ok)
      item == Find(cart, productId)
  IN IF item = {}
     THEN [log |-> dl, storage |-> st, found |-> FALSE]
     ELSE [ log |-> [ i \in 1..Len(dl) |->
                        IF Has2(dl[i], "xdmPageLoad", "web")
                        THEN [dl[i] EXCEPT !.xdmPageLoad.web = [productDetails |-> cart] @@ @]
                        ELSE dl[i] ],
            storage |-> setCart(st, ok,
                          [cart EXCEPT ![First(item)].quantity =
                             N(IF newQuantity < 1 THEN 1 ELSE newQuantity)]),
            found |-> TRUE ]

\* updateCartQuantity(productId, newQuantity): window.adl has no
\* updateProductDetails, so the data layer is not touched
updateCartQuantity(productId, newQuantity, dl, st, ok) ==
  LET cart == getCart(st, ok)
      item == Find(cart, productId)
  IN IF item = {}
     THEN [log |-> dl, storage |-> st, found |-> FALSE]
     ELSE [ log |-> dl,
            storage |-> setCart(st, ok,
                          [cart EXCEPT ![First(item)].quantity =
                             N(IF newQuantity < 1 THEN 1 ELSE newQuantity)]),
            found |-> TRUE ]

\* removeFromCart(productId)
removeFromCart(productId, e, dl, st, ok) ==
  LET cart == getCart(st, ok)
      item == Find(cart, productId)
      updatedCart == SelectSeq(cart, LAMBDA c : String(c.id).s # productId)
      it == cart[First(item)]
      tracked == trackRemoveFromCart([ productID |-> Or(Get(it, "id"), S("")),
                                       productName |-> Or(Get(it, "name"), S("")),
                                       category |-> Or(Get(it, "category"), S("")),
                                       price |-> Or(Get(it, "price"), N(0)),
                                       quantity |-> Or(Get(it, "quantity"), N(1)) ], e, dl)
  IN [ log |-> IF item # {} /\ e.adl THEN tracked.log ELSE dl,
       storage |-> setCart(st, ok, updatedCart),
       found |-> item # {} ]

\* the product ids callers pass: a catalog entry and an unknown id
CartIds == {"1", "9"}

\* a cart operation: it may append to the data layer and write sessionStorage
CartOp(name, productId, r) ==
  /\ Len(r.log) <= MaxLog
  /\ log' = r.log
  /\ storage' = r.storage
  /\ lastOp' = [arg |-> productId] @@ [Op(name) EXCEPT !.rejected = ~r.found]
  /\ UNCHANGED <<page, env, storageOK, timers>>

HandleAddToCart ==
  \E productId \in CartIds :
    /\ \A i \in Find(getCart(storage, storageOK), productId) :
         getCart(storage, storageOK)[i].quantity.n < MaxQuantity
    /\ CartOp("handleAddToCart", productId,
              handleAddToCart(productId, 1, env, log, storage, storageOK))

UpdateCartQuantity ==
  \E productId \in CartIds, newQuantity \in 0..MaxQuantity :
    CartOp("updateCartQuantity", productId,
           updateCartQuantity(productId, newQuantity, log, storage, storageOK))

RemoveFromCart ==
  \E productId \in CartIds :
    CartOp("removeFromCart", productId,
           removeFromCart(productId, env, log, storage, storageOK))

-----------------------------------------------------------------------------
(* Query helpers (adl-utils.js) and validators (adl-validation.js) *)

\* getAllPushes returning window.adobeDataLayer itself
getAllPushesSameArray(dl) == [items |-> dl, sameArray |-> TRUE]

\* window.adl.getAllPushes(): slice(0) gives a new array with the entries of
\* the data layer; sameArray tells whether the array returned is the data layer
getAllPushes(dl) == [items |-> SubSeq(dl, 1, Len(dl)), sameArray |-> FALSE]

\* window.adl.getLastPush()
getLastPush(dl) == IF Len(dl) > 0 THEN dl[Len(dl)] ELSE Null

\* window.adl.getByEvent(eventName), on a data layer without null entries
getByEvent(dl, eventName) == SelectSeq(dl, LAMBDA item : EventIs(item, eventName))

\* the pageLoaded events the validators filter out of the data layer
PageLoadEvents(dl) ==
  SelectSeq(dl, LAMBDA ev : ~IsNull(ev) /\ EventIs(ev, "pageLoaded"))

\* validatePageLoad without its test for more than one pageLoaded event
validatePageLoadFirstOnly(dl) ==
  LET pageLoadEvents == PageLoadEvents(dl)
      ev == pageLoadEvents[1]
      details == ev.xdmPageLoad.web.webPageDetails
  IN /\ Len(pageLoadEvents) > 0
     /\ Has3(ev, "xdmPageLoad", "web", "webPageDetails")
     /\ \A field \in {"brand", "channel", "pageName", "pageType", "pageUrl"} :
          Has(details, field) /\ details[field] # ""

\* validatePageLoad()
validatePageLoad(dl) ==
  LET pageLoadEvents == PageLoadEvents(dl)
      ev == pageLoadEvents[1]
      details == ev.xdmPageLoad.web.webPageDetails
  IN /\ Len(pageLoadEvents) = 1
     /\ Has3(ev, "xdmPageLoad", "web", "webPageDetails")
     /\ \A field \in {"brand", "channel", "pageName", "pageType", "pageUrl"} :
          Has(details, field) /\ details[field] # ""

\* validateProductDetails expecting products on every checkout page, whatever
\* its pageName
validateProductDetailsAnyCheckout(dl) ==
  LET pageLoadEvents == PageLoadEvents(dl)
      ev == pageLoadEvents[1]
      known == Has3(ev, "xdmPageLoad", "web", "webPageDetails")
      pageType == IF known /\ Has(ev.xdmPageLoad.web.webPageDetails, "pageType")
                  THEN ev.xdmPageLoad.web.webPageDetails.pageType ELSE ""
      shouldHaveProducts == pageType \in {"pdp", "cart", "thankyou", "checkout"}
      hasProducts == /\ Has3(ev, "xdmPageLoad", "web", "productDetails")
                     /\ Len(ev.xdmPageLoad.web.productDetails) > 0
  IN /\ Len(pageLoadEvents) > 0
     /\ shouldHaveProducts = hasProducts

\* validateProductDetails()
validateProductDetails(dl) ==
  LET pageLoadEvents == PageLoadEvents(dl)
      ev == pageLoadEvents[1]
      known == Has3(ev, "xdmPageLoad", "web", "webPageDetails")
      pageType == IF known /\ Has(ev.xdmPageLoad.web.webPageDetails, "pageType")
                  THEN ev.xdmPageLoad.web.webPageDetails.pageType ELSE ""
      pageName == IF known /\ Has(ev.xdmPageLoad.web.webPageDetails, "pageName")
                  THEN ev.xdmPageLoad.web.webPageDetails.pageName ELSE ""
      shouldHaveProducts == \/ pageType \in {"pdp", "cart", "thankyou"}
                            \/ pageType = "checkout" /\ pageName = "checkout"
      hasProducts == /\ Has3(ev, "xdmPageLoad", "web", "productDetails")
                     /\ Len(ev.xdmPageLoad.web.productDetails) > 0
  IN /\ Len(pageLoadEvents) > 0
     /\ shouldHaveProducts = hasProducts

\* validateXDMConsistency(): the verdict and the sessionStorage getUnifiedXDM
\* leaves; the verdict reads unifiedXDM.web, which the returned object keeps
\* under xdm
validateXDMConsistency(p, e, dl, st, ok) ==
  With(getUnifiedXDM(p, e, dl, st, ok), LAMBDA r :
     [ ret |-> Has2(r.ret, "web", "webPageDetails"), storage |-> r.storage ])

\* validateNoDuplicates()
validateNoDuplicates(dl) ==
  Cardinality({ i \in 1..Len(dl) : ~IsNull(dl[i]) /\ EventIs(dl[i], "pageLoaded") }) <= 1

GetAllPushes == env.adl /\ Returns("getAllPushes", getAllPushes(log), storage)

GetLastPush == env.adl /\ Returns("getLastPush", getLastPush(log), storage)

\* getByEvent reads item.event of every entry with no test for null: it throws
\* on a data layer that holds a null entry
GetByEvent ==
  \E eventName \in {"pageLoaded", "linkClicked"} :
    /\ env.adl
    /\ lastOp' = IF \E i \in 1..Len(log) : IsNull(log[i])
                 THEN [arg |-> eventName] @@ [Op("getByEvent") EXCEPT !.threw = TRUE]
                 ELSE [arg |-> eventName, ret |-> getByEvent(log, eventName)]
                        @@ Op("getByEvent")
    /\ UNCHANGED <<page, env, log, storage, storageOK, timers>>

\* the caller changes the array getAllPushes returned: empties it or pushes
\* an entry of its own
ChangeReturnedArray ==
  /\ lastOp.op = "getAllPushes"
  /\ \E changed \in {<<>>, Append(lastOp.ret.items, [event |-> "debug"])} :
    /\ changed # lastOp.ret.items
    /\ Len(changed) <= MaxLog
    /\ log' = IF lastOp.ret.sameArray THEN changed ELSE log
    /\ lastOp' = [ret |-> [items |-> changed, sameArray |-> lastOp.ret.sameArray]]
                   @@ Op("changeReturnedArray")
    /\ UNCHANGED <<page, env, storage, storageOK, timers>>

ValidatePageLoad == Returns("validatePageLoad", validatePageLoad(log), storage)

ValidateProductDetails ==
  Returns("validateProductDetails", validateProductDetails(log), storage)

ValidateXDMConsistency ==
  \E r \in {validateXDMConsistency(page, env, log, storage, storageOK)} :
    Returns("validateXDMConsistency", r.ret, r.storage)

ValidateNoDuplicates ==
  Returns("validateNoDuplicates", validateNoDuplicates(log), storage)

-----------------------------------------------------------------------------
(* The environment of the normalizer: failing storage, other scripts *)

\* sessionStorage starts to throw (disabled, quota exceeded)
StorageFails ==
  /\ storageOK
  /\ storageOK' = FALSE
  /\ lastOp' = Op("storageFails")
  /\ UNCHANGED <<page, env, log, storage, timers>>

StorageRecovers ==
  /\ ~storageOK
  /\ storageOK' = TRUE
  /\ lastOp' = Op("storageRecovers")
  /\ UNCHANGED <<page, env, log, storage, timers>>

\* what the pages' inline scripts leave under the normalizer's keys: an item
\* JSON.parse rejects, a persisted pageLoaded event, a persisted order
ForeignItems ==
  { <<KeyNormPage, Garbage>>,
    <<KeyNormPage, JSONItem(PageLoadedEvent([file |-> "plp.html", id |-> ""],
                                            CHOOSE e \in EnvSet : ~e.adl,
                                            [pageType |-> "", pageName |-> "",
                                             productDetails |-> NoProduct]))>>,
    <<KeyProducts, Garbage>>,
    <<KeyCart, Garbage>>,
    <<KeyOrder, Garbage>>,
    <<KeyOrder, JSONItem([orderID |-> S("ORD-7"), totalValue |-> N(2499)])>> }

\* most items other scripts have left in sessionStorage at one time
MaxForeign == 1

ForeignSetItem ==
  \E kv \in ForeignItems :
    /\ storageOK
    /\ Cardinality({other \in ForeignItems : storage[other[1]] = other[2]}) < MaxForeign
    /\ storage[kv[1]] = Absent
    /\ storage' = [storage EXCEPT ![kv[1]] = kv[2]]
    /\ lastOp' = Op("foreignSetItem")
    /\ UNCHANGED <<page, env, log, storageOK, timers>>

\* entries other scripts push: null, a pageLoaded event without its payload,
\* the thank-you page's purchase event
ForeignEntries ==
  { Null,
    [event |-> "pageLoaded"],
    [event |-> "purchase", order |-> [orderID |-> S("ORD-9")]] }

ForeignPush ==
  \E entry \in ForeignEntries :
    /\ Len(log) < MaxLog
    /\ log' = Push(log, entry)
    /\ lastOp' = Op("foreignPush")
    /\ UNCHANGED <<page, env, storage, storageOK, timers>>

NextXDM ==
  \/ PushPageView
  \/ PushProductDetailView
  \/ StorageFails
  \/ StorageRecovers
  \/ ForeignSetItem
  \/ ForeignPush
  \/ AutoCapture
  \/ GetUnifiedXDM

SpecXDM == Init /\ [][NextXDM]_vars

-----------------------------------------------------------------------------
(* Every operation of the site within one document *)

NextSite ==
  \/ NextBuild
  \/ HandleAddToCart
  \/ UpdateCartQuantity
  \/ RemoveFromCart
  \/ AutoCapture
  \/ GetUnifiedXDM
  \/ GetAllPushes
  \/ GetLastPush
  \/ GetByEvent
  \/ ValidatePageLoad
  \/ ValidateProductDetails
  \/ ValidateXDMConsistency
  \/ ValidateNoDuplicates

\* the product page of a catalog entry, where every operation has work to do,
\* for a guest, with and without adl-utils.js
InitSite ==
  /\ Init
  /\ page = [file |-> "pdp.html", id |-> "1"]
  /\ ~env.user.isLoggedIn

SpecSite == InitSite /\ [][NextSite]_vars

-----------------------------------------------------------------------------
(* normalizeProduct on its own *)

\* the source objects explored: every choice of identifier, name, category,
\* price and quantity property, with strings where numbers are expected
Sources ==
  { id @@ name @@ category @@ price @@ quantity :
      id \in { EmptyObject, [productID |-> S("VEL-1")], [id |-> N(7)], [sku |-> S("1")],
               [SKU |-> S("A"), productID |-> S("")] },
      name \in { EmptyObject, [productName |-> S("Jacket")],
                 [name |-> S("Shirt"), brand |-> S("Velora")] },
      category \in { EmptyObject, [category |-> S("Jackets")],
                     [productCategory |-> S("Shirts"), image |-> S("img1")] },
      price \in { EmptyObject, [price |-> N(2499)], [price |-> S("12")],
                  [price |-> S("abc")], [priceTotal |-> N(5), price |-> N(0)] },
      quantity \in { EmptyObject, [quantity |-> N(2)], [quantity |-> S("0")],
                     [qty |-> S("3")], [quantity |-> N(0), qty |-> U] } }
  \cup {NoProduct, products[1], CartItemSource(products[2] @@ [quantity |-> N(2)])}

InitNorm ==
  /\ page = [file |-> "pdp.html", id |-> "1"]
  /\ env = CHOOSE e \in EnvSet : ~e.adl
  /\ log = <<>>
  /\ storage = EmptyStorage
  /\ storageOK = TRUE
  /\ timers = <<>>
  /\ \E source \in Sources : lastOp = [arg |-> source] @@ Op("source")

\* normalizeProduct(source)
NormalizeSource ==
  /\ lastOp.op = "source"
  /\ lastOp' = [arg |-> lastOp.arg, ret |-> normalizeProduct(lastOp.arg)]
                 @@ Op("normalizeProduct")
  /\ UNCHANGED <<page, env, log, storage, storageOK, timers>>

\* normalizeProduct applied to its own result, as buildUnifiedXDM and
\* persistProductListItems do with lists already normalized
NormalizeAgain ==
  /\ lastOp.op = "normalizeProduct"
  /\ lastOp' = [arg |-> lastOp.ret, ret |-> normalizeProduct(lastOp.ret)]
                 @@ Op("normalizeAgain")
  /\ UNCHANGED <<page, env, log, storage, storageOK, timers>>

NextNorm == NormalizeSource \/ NormalizeAgain

SpecNorm == InitNorm /\ [][NextNorm]_vars

-----------------------------------------------------------------------------
(* The order-confirmation page: purchase tracking and the normalizer *)

NextOrder ==
  \/ FirePageLoaded
  \/ TrackPurchase
  \/ ForeignSetItem
  \/ ForeignPush
  \/ GetUnifiedXDM

InitOrder == Init /\ page.file = "thankyou.html"

SpecOrder == InitOrder /\ [][NextOrder]_vars

-----------------------------------------------------------------------------
(* A visit that starts on the product page and goes on to other pages *)

NextJourney ==
  \/ Load
  \/ FirePageLoaded
  \/ PushPageView
  \/ HandleAddToCart
  \/ UpdateCartQuantity
  \/ RemoveFromCart
  \/ AutoCapture
  \/ GetUnifiedXDM

SpecJourney == InitSite /\ [][NextJourney]_vars

-----------------------------------------------------------------------------
(* The builders that persist snapshots and the inspection of the data layer *)

NextInspect ==
  \/ FirePageLoaded
  \/ PushPageView
  \/ TrackLinkClick
  \/ PushLinkClick
  \/ GetAllPushes
  \/ GetLastPush
  \/ GetByEvent
  \/ ChangeReturnedArray

SpecInspect == Init /\ [][NextInspect]_vars

-----------------------------------------------------------------------------
(* Clicks on the site's links and the navigations they schedule *)

\* the links of the header: the delegated click handler of client.js passes
\* the anchor's text and href with the click event
HeaderLinks ==
  { [sig |-> "event", linkName |-> "Shop", linkURL |-> "plp.html", shouldNavigate |-> TRUE],
    [sig |-> "event", linkName |-> "Cart", linkURL |-> "cart.html", shouldNavigate |-> TRUE] }

\* a click on a header link: window.adl.trackLinkClick(e, {linkName, linkURL, ...})
ClickHeaderLink ==
  \E call \in HeaderLinks :
    \E r \in {trackLinkClick(call, page, env, log, timers)} :
      /\ env.adl
      /\ Len(log) < MaxLog
      /\ log' = r.log
      /\ timers' = r.timers
      /\ lastOp' = [call |-> call]
                     @@ [Op("trackLinkClick") EXCEPT !.rejected = r.rejected,
                                                     !.prevented = r.prevented,
                                                     !.scheduled = r.scheduled]
      /\ UNCHANGED <<page, env, storage, storageOK>>

NextNav ==
  \/ ClickHeaderLink
  \/ FirePageLoaded
  \/ Tick
  \/ TimerFire

\* time passes and the event loop runs a callback that is due
SpecNav == Init /\ [][NextNav]_vars /\ WF_vars(Tick) /\ WF_vars(TimerFire)

-----------------------------------------------------------------------------
(* The cart page: the buttons loadCart renders for each item of the cart *)

\* removeBtn.onclick of the i-th item: trackRemoveFromCart for the item, a
\* linkClicked event through the options signature with shouldNavigate false,
\* then removeFromCart(item.id), all three in one handler
ClickRemoveButton ==
  /\ page.file = "cart.html"
  /\ Len(log) < MaxLog
  /\ \E i \in 1..Len(getCart(storage, storageOK)) :
       LET item == getCart(storage, storageOK)[i]
           product == [ productID |-> Or(Get(item, "id"), S("")),
                        productName |-> Or(Get(item, "name"), S("")),
                        category |-> Or(Get(item, "category"), S("")),
                        price |-> Or(Get(item, "price"), N(0)),
                        quantity |-> Or(Get(item, "quantity"), N(1)) ]
           tracked == IF env.adl THEN trackRemoveFromCart(product, env, log).log ELSE log
           clicked == IF env.adl
                      THEN Push(tracked, LinkClickedEvent(env, "Remove from Cart", "cta",
                                                          "cart", adlGetPageName(page)))
                      ELSE tracked
       IN \E r \in {removeFromCart(String(item.id).s, env, clicked, storage, storageOK)} :
            /\ log' = r.log
            /\ storage' = r.storage
            /\ lastOp' = [arg |-> String(item.id).s] @@ Op("clickRemove")
            /\ UNCHANGED <<page, env, storageOK, timers>>

NextCart ==
  \/ Load
  \/ HandleAddToCart
  \/ UpdateCartQuantity
  \/ ClickRemoveButton

SpecCart == InitSite /\ [][NextCart]_vars

-----------------------------------------------------------------------------
(* The product policy of the validator over the page loads of every page *)

\* the pageLoaded event of the pages' single page-load pattern: the page's
\* type and name, and the product list read from velora_productListItems,
\* [] when nothing is persisted
PagePushEvent(e, pageType, pageName, productDetails) ==
  [ event |-> "pageLoaded",
    xdmPageLoad |->
      [ custData |-> buildCustData(e),
        web |-> [ webPageDetails |->
                    [ brand |-> "velora",
                      channel |-> "web|" \o pageType,
                      pageName |-> pageName,
                      pageType |-> pageType,
                      pageUrl |-> "/" ],
                  productDetails |-> productDetails ] ] ]

\* the page types and names the pages and window.adl use
PageKinds ==
  { <<"home", "home">>, <<"category", "plp">>, <<"pdp", "product:vel-1">>,
    <<"cart", "cart">>, <<"checkout", "checkout">>, <<"checkout", "payment">>,
    <<"thankyou", "thankyou">>, <<"confirmation", "confirmation">> }

\* the entries a data layer may hold when the validator runs: the pages' own
\* page loads with and without products, the events of firePageLoaded and
\* pushPageView, and null
PolicyEntries(p, e) ==
  { PagePushEvent(e, k[1], k[2], pd) :
      k \in PageKinds, pd \in {<<>>, <<normalizeProduct(products[1])>>} }
  \cup { PageLoadedEvent(p, e, opts) : opts \in FireOptions }
  \cup { PageViewPayload(p, e), Null }

InitPolicy ==
  /\ page = [file |-> "pdp.html", id |-> "1"]
  /\ env = CHOOSE e \in EnvSet : e.adl /\ ~e.user.isLoggedIn
  /\ log \in UNION { [1..n -> PolicyEntries(page, env)] : n \in 0..MaxLog }
  /\ storage = EmptyStorage
  /\ storageOK = TRUE
  /\ timers = <<>>
  /\ lastOp = Op("load")

NextPolicy ==
  \/ ValidateProductDetails
  \/ ValidatePageLoad

SpecPolicy == InitPolicy /\ [][NextPolicy]_vars

-----------------------------------------------------------------------------
(* Every way of calling trackLinkClick, and the navigations that follow *)

NextClick ==
  \/ TrackLinkClick
  \/ Tick
  \/ TimerFire

\* time passes and the event loop runs a callback that is due
SpecClick == Init /\ [][NextClick]_vars /\ WF_vars(Tick) /\ WF_vars(TimerFire)

-----------------------------------------------------------------------------
(* C1: On every page activation the data layer holds, in this order, the    *)
(* persisted linkClick snapshot if there is one, the persisted pageLoad     *)
(* snapshot if there is one, and then the page's new pageLoaded event.      *)
(* Stated of the first page-load builder run in a fresh document.           *)
ActivationReplaysSnapshots ==
  [][ (lastOp.op \in FreshOps /\ lastOp'.op \in PageLoadOps) =>
        LET restored == Snapshot(storage, KeyLink) \o Snapshot(storage, KeyPage)
        IN /\ Len(log') = Len(restored) + 1
           /\ SubSeq(log', 1, Len(restored)) = restored
           /\ log'[Len(log')].event = "pageLoaded" ]_vars

(* C2: Once a page-load builder has run in a document, the data layer holds *)
(* exactly one pageLoaded event for the current page: never none, never a   *)
(* duplicate.                                                               *)
ExactlyOnePageLoad ==
  (lastOp.op \in PageLoadOps \/ PageLoadsFor(log, page) # {})
    => Cardinality(PageLoadsFor(log, page)) = 1

(* C3: With working storage, whenever the data layer holds a pageLoaded     *)
(* (linkClicked) event, the persisted pageLoad (linkClick) snapshot equals  *)
(* the most recently appended event of that kind.                           *)
SnapshotIsLatestAppend ==
  \A kind \in {"pageLoaded", "linkClicked"} :
    (storageOK /\ OfKind(log, kind) # {})
      => storage[SnapshotKey(kind)] = JSONItem(log[Last(OfKind(log, kind))])

(* C4: When a scheduled navigation takes place, the delay has elapsed, the  *)
(* click's linkClicked event is in the data layer and the linkClick         *)
(* snapshot holds that event (or a later link click of the same document).  *)
NavigationAfterAppendAndSnapshot ==
  [][ lastOp'.op = "navigate" =>
        /\ timers[1].elapsed >= NavDelay
        /\ \E i \in 1..Len(log) :
             /\ log[i] = timers[1].ev
             /\ \E j \in i..Len(log) :
                  /\ log[j].event = "linkClicked"
                  /\ storage[KeyLink] = JSONItem(log[j]) ]_vars

(* C5: A builder call that lacks its required identifying field            *)
(* (trackLinkClick without a linkName, trackAddToCart or                   *)
(* trackRemoveFromCart without a productID, trackPurchase without an       *)
(* orderID) leaves the data layer and sessionStorage unchanged and         *)
(* schedules no navigation.                                                *)
RejectedCallChangesNothing ==
  [][ lastOp'.rejected =>
        /\ log' = log
        /\ storage' = storage
        /\ timers' = timers ]_vars

\* each of the four builders has rejected a call in a document that already
\* holds events, a snapshot and a pending navigation
RejectedCallReached ==
  /\ lastOp.rejected
  /\ lastOp.op \in {"trackLinkClick", "trackAddToCart", "trackRemoveFromCart",
                    "trackPurchase"}
  /\ log # <<>>
  /\ storage[KeyLink] # Absent

\* the custData an event carries: under xdmPageLoad for pageLoaded events, at
\* the root otherwise; none when the property is missing
CustDataOf(ev) ==
  LET holder == IF ev.event = "pageLoaded" THEN ev.xdmPageLoad ELSE ev IN
  IF "custData" \in DOMAIN holder THEN <<holder.custData>> ELSE <<>>

WellFormedCustData(c) ==
  /\ DOMAIN c = {"loginStatus", "platform", "customerID", "lang"}
  /\ c.loginStatus \in {"guest", "logged-in"}
  /\ c.platform \in {"desktop website", "mobile website"}
  /\ c.lang \in {"english", "hindi"}

(* C7: Every event appended to the data layer by a builder carries a       *)
(* custData object with loginStatus, platform, customerID and lang, at the *)
(* event's root or under xdmPageLoad for pageLoaded events.                *)
EveryEventCarriesCustData ==
  \A i \in 1..Len(log) :
    /\ CustDataOf(log[i]) # <<>>
    /\ WellFormedCustData(CustDataOf(log[i])[1])

\* a purchase event, whose custData is rewritten, beside a pageLoaded event
CustDataOnPurchaseReached ==
  /\ \E i \in 1..Len(log) : log[i].event = "scPurchase"
  /\ \E i \in 1..Len(log) : log[i].event = "pageLoaded"

\* sessionStorage as a reader finds it when every item it cannot read is
\* taken away: all of them while storage throws, else the unparsable ones
AsAbsent(st, ok) ==
  [k \in Keys |-> IF ~ok \/ st[k] = Garbage THEN Absent ELSE st[k]]

(* C6: When the storage write fails during an append, the event is still   *)
(* appended to the data layer exactly once and no error reaches the        *)
(* caller; when a storage read fails or gives unparsable data, the         *)
(* normalizer returns what it returns with that item absent.               *)
StorageFailuresAreAbsorbed ==
  [][ /\ (~storageOK /\ lastOp'.op = "pushPageView") =>
           /\ Len(log') = Len(log) + 1
           /\ SubSeq(log', 1, Len(log)) = log
           /\ log'[Len(log')] = PageViewPayload(page, env)
           /\ ~lastOp'.threw
      /\ lastOp'.op = "getUnifiedXDM" =>
           /\ ~lastOp'.threw
           /\ log' = log
           /\ lastOp'.ret =
                getUnifiedXDM(page, env, log, AsAbsent(storage, storageOK), TRUE).ret
    ]_vars

\* getUnifiedXDM has run while storage throws and holds a page item, after a
\* page view was appended whose snapshot could not be written
StorageFailureAbsorbedReached ==
  /\ ~storageOK
  /\ lastOp.op = "getUnifiedXDM"
  /\ storage[KeyNormPage] # Absent
  /\ storage[KeyPage] = Absent
  /\ \E i \in 1..Len(log) : EventIs(log[i], "pageLoaded") /\ Has(log[i], "timestamp")

(* C8: Within a document the data layer is append-only: no operation       *)
(* (builders, cart operations, normalizer, validators, query helpers)      *)
(* removes, reorders or changes an entry already in it, and its length     *)
(* never decreases.                                                        *)
DataLayerIsAppendOnly ==
  [][ lastOp'.op \notin FreshOps =>
        /\ Len(log') >= Len(log)
        /\ SubSeq(log', 1, Len(log)) = log ]_vars

\* updateCartQuantity has changed a cart item in a document whose data layer
\* holds a pageLoaded event and another event
CartUpdateOverEventsReached ==
  /\ lastOp.op = "updateCartQuantity"
  /\ ~lastOp.rejected
  /\ Len(log) >= 2
  /\ \E i \in 1..Len(log) : Has2(log[i], "xdmPageLoad", "web")

(* C9: normalizeProduct is idempotent: normalizing an object it returned   *)
(* gives that object again, field by field.                                *)
NormalizeProductIdempotent ==
  lastOp.op = "normalizeAgain" => lastOp.ret = lastOp.arg

\* a source whose identifier was a number and whose price was a numeral has
\* been normalized twice
NormalizedTwiceReached ==
  /\ lastOp.op = "normalizeAgain"
  /\ lastOp.ret # NoProduct
  /\ lastOp.ret.productID = S("7")
  /\ lastOp.ret.price = N(12)
  /\ lastOp.ret.productCategory = S("Jackets")

\* no entry of the data layer carries a property the normalizer reads and no
\* item under its keys can be read
NothingToRead(dl, st, ok) ==
  /\ \A i \in 1..Len(dl) :
       DOMAIN dl[i] \cap {"xdm", "xdmPageLoad", "product", "productDetails",
                          "order", "orderDetails"} = {}
  /\ \/ ~ok
     \/ \A k \in {KeyNormPage, KeyProducts, KeyCart, KeyOrder} :
          st[k] \in {Absent, Garbage}

GetUnifiedXDMIdempotent ==
  lastOp.op = "getUnifiedXDM" =>
    getUnifiedXDM(page, env, log, storage, storageOK).ret = lastOp.ret

\* getUnifiedXDM has captured and persisted the product of the product page
\* while the cart holds an item of its own
CallPersistedProductListReached ==
  /\ lastOp.op = "getUnifiedXDM"
  /\ IsPDPLike(page)
  /\ Len(lastOp.ret.xdm.commerce.productListItems) = 1
  /\ storage[KeyProducts] = JSONItem(lastOp.ret.xdm.commerce.productListItems)
  /\ Len(getCart(storage, storageOK)) > 0
\* the site's order-confirmation page
IsOrderConfirmation(p) == p.file = "thankyou.html"

\* the positions of the purchase-kind events of a data layer
PurchaseEvents(dl) == {i \in 1..Len(dl) : ~IsNull(dl[i]) /\ IsPurchaseEvent(dl[i])}

(* C12: getUnifiedXDM's result carries an order only on the                 *)
(* order-confirmation page: on every other page it has none, whatever the   *)
(* data layer and sessionStorage hold, and on the order-confirmation page   *)
(* with no purchase event in the data layer and no persisted order it has   *)
(* none either.                                                             *)
OrderOnlyOnConfirmation ==
  lastOp.op = "getUnifiedXDM" =>
    /\ ~IsOrderConfirmation(page) => ~Has(lastOp.ret.xdm.commerce, "order")
    /\ ( /\ IsOrderConfirmation(page)
         /\ PurchaseEvents(log) = {}
         /\ storage[KeyOrder] = Absent )
         => ~Has(lastOp.ret.xdm.commerce, "order")

\* getUnifiedXDM has run on the cart page over a purchase event that carries
\* an order and a persisted order
OrderWithheldOffConfirmationReached ==
  /\ lastOp.op = "getUnifiedXDM"
  /\ page.file = "cart.html"
  /\ storageOK
  /\ storage[KeyOrder].kind = "json"
  /\ \E i \in PurchaseEvents(log) : Has(log[i], "order")
\* the order of the latest purchase-kind event of a data layer, as a sequence
\* of at most one order: trackPurchase keeps it under xdmCommerce, the pages'
\* own purchase events at the root
LatestPurchaseOrder(dl) ==
  LET ev == dl[Last(PurchaseEvents(dl))] IN
  IF PurchaseEvents(dl) = {} THEN <<>>
  ELSE IF Has2(ev, "xdmCommerce", "order") THEN <<ev.xdmCommerce.order>>
  ELSE IF Has(ev, "order") THEN <<ev.order>>
  ELSE <<>>

\* C13 as stated: on the order-confirmation page, when the data layer holds a
\* purchase-kind event or an order is persisted, getUnifiedXDM returns the
\* order of that purchase event, or else the persisted order
OrderFromPurchaseOrStorage ==
  ( /\ lastOp.op = "getUnifiedXDM"
    /\ IsOrderConfirmation(page)
    /\ storageOK
    /\ LatestPurchaseOrder(log) # <<>> \/ storage[KeyOrder].kind = "json" )
    => /\ Has(lastOp.ret.xdm.commerce, "order")
       /\ lastOp.ret.xdm.commerce.order =
            IF LatestPurchaseOrder(log) # <<>> THEN LatestPurchaseOrder(log)[1]
            ELSE storage[KeyOrder].v
\* C14 as stated: on the home, product-list and payment pages the product
\* list getUnifiedXDM exposes is empty, whatever earlier pages persisted; of
\* the two checkout pages only the cart-summary step, checkout.html, may
\* expose a non-empty one
NoProductListOffProductPages ==
  ( /\ lastOp.op = "getUnifiedXDM"
    /\ page.file \in {"index.html", "plp.html", "payment.html"} )
    => lastOp.ret.xdm.commerce.productListItems = <<>>
\* C15 as stated: on the product page of a catalog entry getUnifiedXDM returns
\* a list holding exactly that product, in normalized form, and the list
\* persisted under velora_productListItems afterwards equals the returned one
ProductPageCapturesItsProduct ==
  ( /\ lastOp.op = "getUnifiedXDM"
    /\ IsPDPLike(page)
    /\ Find(products, page.id) # {}
    /\ storageOK )
    => LET list == lastOp.ret.xdm.commerce.productListItems
           entry == products[First(Find(products, page.id))]
       IN /\ Len(list) = 1
          /\ list[1] = normalizeProduct(list[1])
          /\ list[1].productID \in {String(entry.id), S("VEL-" \o String(entry.id).s)}
          /\ list[1].productName = entry.name
          /\ storage[KeyProducts] = JSONItem(list)

\* the same with the product in the data layer: the latest pageLoaded event
\* carries it as window.adl.firePageLoaded builds it
ProductPageCapturesFiredProduct ==
  ( /\ lastOp.op = "getUnifiedXDM"
    /\ IsPDPLike(page)
    /\ Find(products, page.id) # {}
    /\ storageOK
    /\ PdpList(findLatestDLEvent(log, "pageLoaded")) # <<>>
    /\ IsNull(findLatestDLEvent(log, "productDetail")) )
    => LET list == lastOp.ret.xdm.commerce.productListItems
           entry == products[First(Find(products, page.id))]
       IN /\ Len(list) = 1
          /\ list[1] = normalizeProduct(list[1])
          /\ list[1].productID \in {String(entry.id), S("VEL-" \o String(entry.id).s)}
          /\ list[1].productName = entry.name
          /\ storage[KeyProducts] = JSONItem(list)
(* C16: Once a product list is persisted, no operation on a page that is    *)
(* not a product page (loading it, firing its pageLoaded event, adding to,  *)
(* removing from or changing the cart, calling getUnifiedXDM) changes the   *)
(* persisted list, and the list getUnifiedXDM exposes there equals it.      *)
PersistedProductListIsKept ==
  [][ (storage[KeyProducts].kind = "json" /\ ~IsPDPLike(page')) =>
        /\ storage'[KeyProducts] = storage[KeyProducts]
        /\ lastOp'.op = "getUnifiedXDM" =>
             lastOp'.ret.xdm.commerce.productListItems = storage[KeyProducts].v
    ]_vars

\* getUnifiedXDM has run on the cart page with a persisted product list, a
\* cart whose item was changed and events in the data layer
PersistedListReadOnCartPageReached ==
  /\ lastOp.op = "getUnifiedXDM"
  /\ page.file = "cart.html"
  /\ storage[KeyProducts].kind = "json"
  /\ Len(getCart(storage, storageOK)) > 0
  /\ getCart(storage, storageOK)[1].quantity = N(2)
  /\ log # <<>>
(* C17: A persisted snapshot, once created, is never removed and changes    *)
(* only when an event of its kind is appended, to that event: appending a   *)
(* linkClicked event leaves the pageLoad snapshot as it was, appending a    *)
(* pageLoaded event leaves the linkClick snapshot as it was, and appending  *)
(* an event of another kind, or any other operation, leaves both.           *)
SnapshotChangesOnlyWithItsKind ==
  [][ \A kind \in {"pageLoaded", "linkClicked"} :
        storage'[SnapshotKey(kind)] # storage[SnapshotKey(kind)] =>
          /\ Len(log') = Len(log) + 1
          /\ log'[Len(log')].event = kind
          /\ storage'[SnapshotKey(kind)] = JSONItem(log'[Len(log')]) ]_vars

\* a link click was appended and persisted after the page snapshot was
\* written, and the page snapshot is still the page view's
SnapshotKeptAcrossOtherKindReached ==
  /\ lastOp.op = "pushLinkClick"
  /\ Len(log) = 2
  /\ log[1].event = "pageLoaded"
  /\ storage[KeyPage] = JSONItem(log[1])
  /\ storage[KeyLink] = JSONItem(log[2])
\* C18 as stated: the snapshots are kept under velora_pageData and
\* velora_lastLinkClicked, so that after a pageLoaded event is appended and
\* persisted the item the normalizer's buildPageDetails reads, under its
\* STORAGE_KEY_PAGE, is that event
SnapshotsUnderNormalizerKeys ==
  /\ (storageOK /\ lastOp.op = "pushPageView") =>
       /\ storage["velora_pageData"] = JSONItem(log[Len(log)])
       /\ ReadParsed(storage, storageOK, KeyNormPage) = log[Len(log)]
  /\ (storageOK /\ lastOp.op = "pushLinkClick") =>
       /\ "velora_lastLinkClicked" \in DOMAIN storage
       /\ storage["velora_lastLinkClicked"] = JSONItem(log[Len(log)])
\* the targets of the navigations the header links schedule
NavTargets == {call.linkURL : call \in HeaderLinks}

\* C19 as stated: once trackLinkClick has scheduled a navigation, the page
\* eventually navigates to its target, whatever is appended or clicked before
\* the delay elapses
EveryScheduledNavigationHappens ==
  \A u \in NavTargets :
    (\E i \in 1..Len(timers) : timers[i].url = u)
      ~> (lastOp.op = "navigate" /\ page = PageOfURL(u))

(* C19: Once trackLinkClick has scheduled a navigation, no later operation  *)
(* of the document cancels, reorders or retargets it: it stays pending      *)
(* until the document is replaced, whatever is appended or clicked before   *)
(* the delay elapses; the page eventually navigates, and it navigates to    *)
(* the target of a pending navigation whose delay has elapsed.              *)
PendingNavigationIsPerformed ==
  /\ [][ lastOp'.op # "navigate" =>
           /\ Len(timers') >= Len(timers)
           /\ \A i \in 1..Len(timers) :
                /\ timers'[i].url = timers[i].url
                /\ timers'[i].delay = timers[i].delay
                /\ timers'[i].elapsed >= timers[i].elapsed ]_vars
  /\ [][ lastOp'.op = "navigate" =>
           \E i \in 1..Len(timers) :
             /\ timers[i].elapsed >= timers[i].delay
             /\ page' = PageOfURL(timers[i].url) ]_vars
  /\ (timers # <<>>) ~> (lastOp.op = "navigate")

\* a second link, with another target, was clicked while the first
\* navigation was pending and part of its delay had elapsed
SecondClickWhilePendingReached ==
  /\ lastOp.op = "trackLinkClick"
  /\ lastOp.scheduled
  /\ Len(timers) = 2
  /\ timers[1].url # timers[2].url
  /\ timers[1].elapsed > 0
\* the positions of the pageLoaded events of a data layer that may hold null
\* entries
PageLoadedAt(dl) == {i \in 1..Len(dl) : ~IsNull(dl[i]) /\ EventIs(dl[i], "pageLoaded")}

\* the event carries xdmPageLoad.web.webPageDetails with the five required
\* fields, none of them empty
HasFullPageDetails(ev) ==
  /\ Has3(ev, "xdmPageLoad", "web", "webPageDetails")
  /\ {"brand", "channel", "pageName", "pageType", "pageUrl"}
       \subseteq DOMAIN ev.xdmPageLoad.web.webPageDetails
  /\ \A f \in {"brand", "channel", "pageName", "pageType", "pageUrl"} :
       ev.xdmPageLoad.web.webPageDetails[f] # ""

(* C20: validatePageLoad returns true if and only if the data layer holds   *)
(* exactly one pageLoaded event and that event has                          *)
(* xdmPageLoad.web.webPageDetails with non-empty brand, channel, pageName,  *)
(* pageType and pageUrl.                                                    *)
ValidatePageLoadIffOneFullPageLoad ==
  lastOp.op = "validatePageLoad" =>
    ( lastOp.ret = TRUE <=>
        /\ Cardinality(PageLoadedAt(log)) = 1
        /\ \A i \in PageLoadedAt(log) : HasFullPageDetails(log[i]) )

\* validatePageLoad has accepted a data layer that holds one pageLoaded event
\* and an event of another kind before it
PageLoadValidatedReached ==
  /\ lastOp.op = "validatePageLoad"
  /\ lastOp.ret = TRUE
  /\ Len(log) = 2
  /\ PageLoadedAt(log) = {2}
-----------------------------------------------------------------------------
(* Page load events against the documented page table *)

\* the documented (pageType, pageName) of each page other than product detail
PageTable ==
  [ f \in Files \ {"pdp.html"} |->
      CASE f = "index.html" -> [pageType |-> "home", pageName |-> "home"]
        [] f = "plp.html" -> [pageType |-> "category", pageName |-> "plp"]
        [] f = "cart.html" -> [pageType |-> "cart", pageName |-> "cart"]
        [] f = "checkout.html" -> [pageType |-> "checkout", pageName |-> "checkout"]
        [] f = "payment.html" -> [pageType |-> "checkout", pageName |-> "payment"]
        [] f = "thankyou.html" -> [pageType |-> "thankyou", pageName |-> "thankyou"] ]

(* C21: on every page other than product detail, the pageLoaded event that  *)
(* firePageLoaded builds with default options carries channel               *)
(* 'web|' + pageType and the pageType and pageName of the page table.       *)
FiredPageLoadFollowsPageTable ==
  (lastOp.op = "firePageLoaded" /\ adlGetPageType(page) # "pdp") =>
    LET details == log[Len(log)].xdmPageLoad.web.webPageDetails IN
    /\ details.channel = "web|" \o details.pageType
    /\ details.pageType = PageTable[page.file].pageType
    /\ details.pageName = PageTable[page.file].pageName

\* on the pages whose default type and name the code derives as the table
\* has them, the fired event follows the table
FiredPageLoadFollowsPageTableOffPaymentAndThankYou ==
  (lastOp.op = "firePageLoaded" /\ adlGetPageType(page) # "pdp"
     /\ page.file \notin {"payment.html", "thankyou.html"}) =>
    LET details == log[Len(log)].xdmPageLoad.web.webPageDetails IN
    /\ details.channel = "web|" \o details.pageType
    /\ details.pageType = PageTable[page.file].pageType
    /\ details.pageName = PageTable[page.file].pageName
-----------------------------------------------------------------------------
(* Inspection of the data layer *)

InspectionOps == {"getAllPushes", "getLastPush", "getByEvent", "changeReturnedArray"}

\* the position in dl of the k-th entry of the given kind
KthOfKind(dl, kind, k) ==
  CHOOSE i \in OfKind(dl, kind) : Cardinality({j \in OfKind(dl, kind) : j <= i}) = k

(* C22: getAllPushes, getLastPush and getByEvent leave the data layer and    *)
(* the snapshots unchanged; getLastPush returns the last entry, null on an   *)
(* empty data layer; getByEvent returns exactly the entries of the given     *)
(* kind in the order of the data layer; changing the array getAllPushes      *)
(* returned does not change the data layer.                                  *)
InspectionIsReadOnly ==
  /\ [][ lastOp'.op \in InspectionOps => log' = log /\ storage' = storage ]_vars
  /\ [](lastOp.op = "getAllPushes" => lastOp.ret.items = log)
  /\ [](lastOp.op = "getLastPush" =>
          lastOp.ret = IF log = <<>> THEN Null ELSE log[Len(log)])
  /\ [](lastOp.op = "getByEvent" =>
          /\ ~lastOp.threw
          /\ Len(lastOp.ret) = Cardinality(OfKind(log, lastOp.arg))
          /\ \A k \in 1..Len(lastOp.ret) :
               lastOp.ret[k] = log[KthOfKind(log, lastOp.arg, k)])

\* the caller has changed the array getAllPushes returned for a data layer of
\* two events, one of them persisted as a snapshot
ReturnedArrayChangedReached ==
  /\ lastOp.op = "changeReturnedArray"
  /\ Len(log) = 2
  /\ lastOp.ret.items # log
  /\ storage[KeyPage] # Absent
-----------------------------------------------------------------------------
(* Which link clicks navigate *)

(* C23: trackLinkClick schedules a navigation only when it is called with   *)
(* an options object carrying a non-empty linkURL and shouldNavigate not    *)
(* false; a call with the positional signature or with shouldNavigate false *)
(* that is not rejected appends its event and schedules nothing, and a      *)
(* navigation only ever happens for a timer that was pending and due.       *)
NavigationOnlyForOptionsWithURL ==
  /\ [][ lastOp'.op = "trackLinkClick" =>
         /\ timers' # timers =>
              /\ lastOp'.call.sig # "positional"
              /\ lastOp'.call.linkURL # ""
              /\ lastOp'.call.shouldNavigate
              /\ Len(timers') = Len(timers) + 1
              /\ timers'[Len(timers')].url = lastOp'.call.linkURL
         /\ (lastOp'.call.sig = "positional" \/ ~lastOp'.call.shouldNavigate) =>
              /\ timers' = timers
              /\ page' = page
              /\ lastOp'.call.linkName # "" =>
                   /\ Len(log') = Len(log) + 1
                   /\ SubSeq(log', 1, Len(log)) = log
                   /\ log'[Len(log')].event = "linkClicked"
                   /\ log'[Len(log')].xdmActionDetails.web.webInteraction.linkName
                        = lastOp'.call.linkName ]_vars
  /\ [][ lastOp'.op = "navigate" =>
           \E i \in 1..Len(timers) :
             /\ timers[i].elapsed >= timers[i].delay
             /\ page' = PageOfURL(timers[i].url) ]_vars

\* an options call with shouldNavigate false and a linkURL has appended its
\* event while the navigation of an earlier click is pending, and has added no
\* timer of its own
ClickWithoutNavigationReached ==
  /\ lastOp.op = "trackLinkClick"
  /\ lastOp.call.sig = "object"
  /\ ~lastOp.call.shouldNavigate
  /\ lastOp.call.linkURL # ""
  /\ ~lastOp.rejected
  /\ Len(log) = 2
  /\ Len(timers) = 1
-----------------------------------------------------------------------------
(* Clicks whose default navigation was suppressed *)

(* C24: whenever trackLinkClick has suppressed a click's default navigation *)
(* (it was called with the click event and a linkURL), a programmatic       *)
(* navigation to the link's target eventually follows, also when the call   *)
(* was rejected.                                                            *)
SuppressedClickIsNavigated ==
  \A u \in {"plp.html"} :
    (lastOp.op = "trackLinkClick" /\ lastOp.prevented /\ lastOp.call.linkURL = u)
      ~> (lastOp.op = "navigate" /\ page = PageOfURL(u))

\* the same for the calls trackLinkClick accepts
SuppressedAcceptedClickIsNavigated ==
  \A u \in {"plp.html"} :
    (lastOp.op = "trackLinkClick" /\ lastOp.prevented /\ lastOp.call.linkURL = u
       /\ ~lastOp.rejected)
      ~> (lastOp.op = "navigate" /\ page = PageOfURL(u))
-----------------------------------------------------------------------------
(* Where the product list comes from when the page gives none *)

\* the page gives getUnifiedXDM no product list of its own: it is not a
\* product-detail page, or the data layer of the product-detail page carries
\* no product list
NoProductContext(p, dl) ==
  \/ ~IsPDPLike(p)
  \/ buildProductListItemsFromPDP(p, dl) = <<>>
  \/ buildProductListItemsFromPDP(p, dl) = << <<>> >>

\* the descriptor at position i of list is the one of cart item c
IsDescriptorOf(item, c) ==
  /\ item.productID = S("VEL-" \o c.id.s)
  /\ item.productName = c.name
  /\ item.productCategory = c.category
  /\ item.price = c.price
  /\ item.quantity = c.quantity

(* C25: when the page gives no product context (it is not a product-detail *)
(* page, or it is one whose data layer carries no product list), the       *)
(* product list getUnifiedXDM returns is the persisted product list when   *)
(* that is a non-empty array, otherwise the items of the session cart,     *)
(* otherwise empty.                                                        *)
ProductListFallsBackToStorageThenCart ==
  (lastOp.op = "getUnifiedXDM" /\ NoProductContext(page, log)) =>
    LET list == lastOp.ret.xdm.commerce.productListItems
        persisted == storage[KeyProducts]
        cart == storage[KeyCart]
    IN IF persisted.kind = "json" /\ Len(persisted.v) > 0
       THEN list = persisted.v
       ELSE IF cart.kind = "json" /\ Len(cart.v) > 0
       THEN /\ Len(list) = Len(cart.v)
            /\ \A i \in 1..Len(list) : IsDescriptorOf(list[i], cart.v[i])
       ELSE list = <<>>

\* getUnifiedXDM has returned the cart's items on the cart page, nothing being
\* persisted
CartItemsReturnedOnCartPageReached ==
  /\ lastOp.op = "getUnifiedXDM"
  /\ page.file = "cart.html"
  /\ storage[KeyProducts] = Absent
  /\ storage[KeyCart].kind = "json"
  /\ Len(storage[KeyCart].v) = 1
  /\ Len(lastOp.ret.xdm.commerce.productListItems) = 1
-----------------------------------------------------------------------------
(* Page details against the data layer of the current page *)

\* the page details a pageLoaded event carries, as a sequence of at most one
PageDetailsOf(ev) ==
  IF Has3(ev, "xdm", "web", "webPageDetails") THEN <<ev.xdm.web.webPageDetails>>
  ELSE IF Has3(ev, "xdmPageLoad", "web", "webPageDetails")
  THEN <<ev.xdmPageLoad.web.webPageDetails>>
  ELSE <<>>

PageDetailsAreOfLatestPageLoadIfNonePersisted ==
  (lastOp.op = "getUnifiedXDM" /\ PageLoadedAt(log) # {}
     /\ PageDetailsOf(log[Last(PageLoadedAt(log))]) # <<>>
     /\ storage[KeyNormPage].kind # "json") =>
    lastOp.ret.xdm.web.webPageDetails = PageDetailsOf(log[Last(PageLoadedAt(log))])[1]
-----------------------------------------------------------------------------
(* The page-load builders against the validator *)

(* C27: every pageLoaded event built by firePageLoaded or pushPageView has  *)
(* the structure validatePageLoad requires: a data layer holding exactly    *)
(* one such event passes validatePageLoad.                                  *)
BuiltPageLoadPassesValidation ==
  (lastOp.op = "validatePageLoad" /\ Cardinality(PageLoadedAt(log)) = 1) =>
    lastOp.ret = TRUE

\* the same for the events of firePageLoaded alone
FiredPageLoadPassesValidation ==
  (lastOp.op = "validatePageLoad" /\ Cardinality(PageLoadedAt(log)) = 1
     /\ \E opts \in FireOptions :
          log[Last(PageLoadedAt(log))] = PageLoadedEvent(page, env, opts)) =>
    lastOp.ret = TRUE
-----------------------------------------------------------------------------
(* The session cart *)

\* the product ids of the catalog
CatalogIds == {products[i].id.s : i \in 1..Len(products)}

(* C28: after any sequence of add-to-cart, quantity-change and remove       *)
(* operations the session cart holds at most one entry per product id and   *)
(* every entry's quantity is at least 1; adding an unknown product id       *)
(* leaves the cart and the data layer unchanged; adding to the cart never   *)
(* schedules a navigation.                                                  *)
CartStaysWellFormed ==
  /\ [](storage[KeyCart].kind = "json" =>
          LET cart == storage[KeyCart].v IN
          /\ \A i, j \in 1..Len(cart) : cart[i].id = cart[j].id => i = j
          /\ \A i \in 1..Len(cart) : cart[i].quantity.t = "n" /\ cart[i].quantity.n >= 1)
  /\ [][ lastOp'.op = "handleAddToCart" =>
           /\ timers' = timers
           /\ page' = page
           /\ lastOp'.arg \notin CatalogIds => storage' = storage /\ log' = log ]_vars

\* a second add of the same product has raised the quantity of its one entry,
\* both adds being tracked
SecondAddRaisedQuantityReached ==
  /\ lastOp.op = "handleAddToCart"
  /\ lastOp.arg \in CatalogIds
  /\ storage[KeyCart].kind = "json"
  /\ Len(storage[KeyCart].v) = 1
  /\ storage[KeyCart].v[1].quantity = N(2)
  /\ Len(log) = 2
-----------------------------------------------------------------------------
(* The Remove button of a cart item *)

\* the positions of the removeFromCart events for product id that a step appends
RemovalsAppended(before, after, id) ==
  { i \in (Len(before) + 1)..Len(after) :
      /\ after[i].event = "removeFromCart"
      /\ after[i].xdmCommerce.product.productID = S(id) }

(* C29: one click on a cart item's Remove button appends exactly one        *)
(* removeFromCart event for that item to the data layer.                    *)
RemoveClickAppendsOneRemoval ==
  [][ (lastOp'.op = "clickRemove" /\ env.adl) =>
        Cardinality(RemovalsAppended(log, log', lastOp'.arg)) = 1 ]_vars

\* what the click does append: the item's removeFromCart event, the click's
\* linkClicked event and the same removeFromCart event once more
RemoveClickAppendsTheRemovalTwice ==
  [][ (lastOp'.op = "clickRemove" /\ env.adl) =>
        /\ Len(log') = Len(log) + 3
        /\ SubSeq(log', 1, Len(log)) = log
        /\ RemovalsAppended(log, log', lastOp'.arg) = {Len(log) + 1, Len(log) + 3}
        /\ log'[Len(log) + 1] = log'[Len(log) + 3]
        /\ log'[Len(log) + 2].event = "linkClicked" ]_vars
-----------------------------------------------------------------------------
(* The validator's product policy *)

\* the pageLoaded event carries a non-empty product list
HasProducts(ev) ==
  /\ Has3(ev, "xdmPageLoad", "web", "productDetails")
  /\ ev.xdmPageLoad.web.productDetails # <<>>

\* the should-have-products policy for the page the event describes
ShouldHaveProducts(ev) ==
  /\ Has3(ev, "xdmPageLoad", "web", "webPageDetails")
  /\ LET details == ev.xdmPageLoad.web.webPageDetails IN
     \/ details.pageType = "pdp"
     \/ details.pageType = "cart"
     \/ details.pageType = "thankyou"
     \/ details.pageType = "checkout" /\ details.pageName = "checkout"

(* C30: validateProductDetails returns true exactly when the data layer     *)
(* holds a pageLoaded event and the product presence of the first one       *)
(* matches the policy: products present for page types pdp, cart and        *)
(* thankyou and for checkout with pageName 'checkout', absent for every     *)
(* other page.                                                              *)
ValidateProductDetailsFollowsPolicy ==
  lastOp.op = "validateProductDetails" =>
    ( lastOp.ret = TRUE <=>
        /\ PageLoadedAt(log) # {}
        /\ HasProducts(log[First(PageLoadedAt(log))])
             <=> ShouldHaveProducts(log[First(PageLoadedAt(log))]) )

\* the validator has accepted a data layer whose first pageLoaded event is the
\* checkout page's with products, before a payment page load that has products
\* against the policy
CheckoutWithProductsValidatedReached ==
  /\ lastOp.op = "validateProductDetails"
  /\ lastOp.ret = TRUE
  /\ Len(log) = 2
  /\ PageLoadedAt(log) = {1, 2}
  /\ log[1].xdmPageLoad.web.webPageDetails.pageName = "checkout"
  /\ HasProducts(log[1])
  /\ log[2].xdmPageLoad.web.webPageDetails.pageName = "payment"
  /\ HasProducts(log[2])

====
